---- MODULE Spec2Model ----
(***************************************************************************)
(* QwenContentGenerator.processStreamResponse: the streaming adapter that  *)
(* assembles tool calls out of the SSE deltas of one streaming call.       *)
(* The model follows src/unnamed/part_007 (the variant with the            *)
(* hasOutputToolCalls flag and the early-completion flush).                *)
(*                                                                         *)
(* Strings that the code inspects character by character (argument text,   *)
(* delta content) are sequences of one-character strings; names and ids    *)
(* are TLA+ strings.  "" and <<>> stand for undefined / empty (both are    *)
(* falsy in the code).                                                     *)
(***************************************************************************)
EXTENDS Integers, Sequences, FiniteSets, TLC

\* ----------------------------------------------------------------- bounds
\* Lines of one streaming call that the model feeds.
MaxEvents == 4
\* Complete SSE lines that one reader.read() may deliver.
MaxLines == 2
\* Fragments of one call's argument string in the splitting specification.
MaxFragments == 5

\* ------------------------------------------------------------- JSON texts
\* Argument text is written over these characters: "a" and "b" stand for
\* the members "a":1 and "b":2 of an object, "k" for the key "k": of a member
\* whose value follows it, "1" for a digit.
Members == {"a", "b"}

IsObjectText(s) ==
    /\ Len(s) >= 2
    /\ s[1] = "{"
    /\ s[Len(s)] = "}"
    /\ LET inner == SubSeq(s, 2, Len(s) - 1)
       IN  \/ Len(inner) = 0
           \/ /\ Len(inner) % 2 = 1
              /\ \A i \in 1..Len(inner) :
                    IF i % 2 = 1 THEN inner[i] \in Members ELSE inner[i] = ","

IsNumberText(s) == Len(s) >= 1 /\ \A i \in 1..Len(s) : s[i] = "1"

\* String.prototype.trim: white space removed at both ends.
RECURSIVE TrimLeft(_)
TrimLeft(s) == IF Len(s) > 0 /\ s[1] = " " THEN TrimLeft(Tail(s)) ELSE s

RECURSIVE TrimRight(_)
TrimRight(s) ==
    IF Len(s) > 0 /\ s[Len(s)] = " " THEN TrimRight(SubSeq(s, 1, Len(s) - 1)) ELSE s

Trim(s) == TrimRight(TrimLeft(s))

\* content.trim() is the empty string.
IsBlank(content) == Len(Trim(content)) = 0

\* White space between the tokens of a JSON text is insignificant.
RECURSIVE Squeeze(_)
Squeeze(s) ==
    IF Len(s) = 0 THEN <<>>
    ELSE IF s[1] = " " THEN Squeeze(Tail(s)) ELSE <<s[1]>> \o Squeeze(Tail(s))

\* The position of the first character of s at or after i that is not white space.
RECURSIVE SkipSpace(_, _)
SkipSpace(s, i) == IF i <= Len(s) /\ s[i] = " " THEN SkipSpace(s, i + 1) ELSE i

\* The position after the digits of s that start at i.
RECURSIVE NumberEnd(_, _)
NumberEnd(s, i) == IF i <= Len(s) /\ s[i] = "1" THEN NumberEnd(s, i + 1) ELSE i

\* JSON.parse's grammar: the position after the value (the members up to the
\* closing brace, the elements up to the closing bracket) that starts at i,
\* or 0 when there is none.
RECURSIVE ValueEnd(_, _)
RECURSIVE MembersEnd(_, _)
RECURSIVE ElementsEnd(_, _)
ValueEnd(s, i) ==
    IF i > Len(s) THEN 0
    ELSE IF s[i] = "1" THEN NumberEnd(s, i)
    ELSE IF s[i] = "{"
         THEN LET j == SkipSpace(s, i + 1)
              IN  IF j <= Len(s) /\ s[j] = "}" THEN j + 1 ELSE MembersEnd(s, j)
    ELSE IF s[i] = "["
         THEN LET j == SkipSpace(s, i + 1)
              IN  IF j <= Len(s) /\ s[j] = "]" THEN j + 1 ELSE ElementsEnd(s, j)
    ELSE 0

MembersEnd(s, i) ==
    LET e == IF i > Len(s) THEN 0
             ELSE IF s[i] \in Members THEN i + 1
             ELSE IF s[i] = "k" THEN ValueEnd(s, SkipSpace(s, i + 1))
             ELSE 0
        j == IF e = 0 THEN 0 ELSE SkipSpace(s, e)
    IN  IF e = 0 \/ j > Len(s) THEN 0
        ELSE IF s[j] = "}" THEN j + 1
        ELSE IF s[j] = "," THEN MembersEnd(s, SkipSpace(s, j + 1))
        ELSE 0

ElementsEnd(s, i) ==
    LET e == ValueEnd(s, i)
        j == IF e = 0 THEN 0 ELSE SkipSpace(s, e)
    IN  IF e = 0 \/ j > Len(s) THEN 0
        ELSE IF s[j] = "]" THEN j + 1
        ELSE IF s[j] = "," THEN ElementsEnd(s, SkipSpace(s, j + 1))
        ELSE 0

\* JSON.parse(str) does not throw.
JsonParses(str) ==
    LET e == ValueEnd(str, SkipSpace(str, 1))
    IN  e # 0 /\ SkipSpace(str, e) = Len(str) + 1

\* A value of JSON.parse, or the args of a FunctionCall.
EmptyObject == [kind |-> "object", members |-> {}, digits |-> 0, raw |-> <<>>, nested |-> <<>>]

RawArguments(str) ==
    [kind |-> "object", members |-> {"_raw_arguments"}, digits |-> 0, raw |-> str, nested |-> <<>>]

\* The names of the members of the object text t (at depth 1), from position i.
RECURSIVE TopMembers(_, _, _)
TopMembers(t, i, depth) ==
    IF i > Len(t) THEN {}
    ELSE IF t[i] \in {"{", "["} THEN TopMembers(t, i + 1, depth + 1)
    ELSE IF t[i] \in {"}", "]"} THEN TopMembers(t, i + 1, depth - 1)
    ELSE (IF depth = 1 /\ t[i] \in Members \cup {"k"} THEN {t[i]} ELSE {})
         \cup TopMembers(t, i + 1, depth)

\* JSON.parse on a text that parses: the value it denotes. A value with
\* nested values keeps their text.
JSONparse(str) ==
    LET t == Squeeze(str)
    IN  IF t[1] = "{"
        THEN [kind |-> "object", members |-> TopMembers(t, 1, 0), digits |-> 0, raw |-> <<>>,
              nested |-> IF IsObjectText(t) THEN <<>> ELSE t]
        ELSE IF t[1] = "["
        THEN [kind |-> "array", members |-> {}, digits |-> 0, raw |-> <<>>, nested |-> t]
        ELSE [kind |-> "number", members |-> {}, digits |-> Len(t), raw |-> <<>>, nested |-> <<>>]

\* ---------------------------------------------------------------- the wire
NoIndex == -1

\* One element of choice.delta.tool_calls.
Frag(index, id, name, arguments) ==
    [index |-> index, id |-> id, name |-> name, arguments |-> arguments]

\* One complete line of the SSE body.
DataLine(tcs, content, finish) ==
    [kind |-> "data", tcs |-> tcs, content |-> content, finish |-> finish]
DoneLine == [kind |-> "done", tcs |-> <<>>, content |-> <<>>, finish |-> ""]
MalformedLine == [kind |-> "malformed", tcs |-> <<>>, content |-> <<>>, finish |-> ""]
BlankLine == [kind |-> "blank", tcs |-> <<>>, content |-> <<>>, finish |-> ""]

\* ------------------------------------------------------------------ state
VARIABLES
    pc,                  \* "read" (awaiting reader.read()), "lines" (in the
                         \* for loop), "done" (returned), "failed" (threw)
    lines,               \* lines of the current read not yet processed
    accumulatedToolCalls,\* the Map, as the sequence of its values in insertion order
    hasOutputToolCalls,  \* the one-shot flag
    out,                 \* responses yielded to the caller, in order
    released,            \* calls of reader.releaseLock()
    fed,                 \* history: the lines processed so far
    taken,               \* responses the caller has taken from the generator
    parked,              \* the locals of another streaming call in flight on
                         \* the same object, while this one runs
    sent,                \* the wire requests built by toQwenGenerateRequest
    buffer,              \* the characters read that do not yet end with a newline
    body,                \* the characters of the response body, as the server wrote it
    position             \* how many characters of body the reads have delivered

vars == <<pc, lines, accumulatedToolCalls, hasOutputToolCalls, out, released, fed, taken, parked, sent,
          buffer, body, position>>

\* The locals of a streaming call that has not read anything yet.
Fresh ==
    [pc |-> "read", lines |-> <<>>, accumulatedToolCalls |-> <<>>, hasOutputToolCalls |-> FALSE,
     out |-> <<>>, released |-> 0, fed |-> <<>>]

\* ------------------------------------------------- the accumulation (Map)
\* `tool_${index}`
ToolKey(n) ==
    CASE n = 0 -> "tool_0"
      [] n = 1 -> "tool_1"
      [] n = 2 -> "tool_2"
      [] n = 100 -> "tool_100"
      [] n = 101 -> "tool_101"
      [] OTHER -> "tool_now"

\* The key taken from the id first and from the index only without an id.
toolCallIdByIdFirst(toolCall, now) ==
    IF toolCall.id # "" THEN toolCall.id
    ELSE IF toolCall.index # NoIndex THEN ToolKey(toolCall.index)
    ELSE ToolKey(0)

\* The key of a fragment's slot: the index when there is one, else the id,
\* else `tool_${Date.now()}`.
toolCallId(toolCall, now) ==
    IF toolCall.index # NoIndex THEN ToolKey(toolCall.index)
    ELSE IF toolCall.id # "" THEN toolCall.id
    ELSE ToolKey(now)

\* accumulatedToolCalls.has(key)
Has(acc, key) == \E i \in 1..Len(acc) : acc[i].key = key

\* Upsert with the arguments assigned instead of appended.
UpsertOverwrite(acc, toolCall, now) ==
    LET key == toolCallId(toolCall, now)
        acc1 == IF Has(acc, key) THEN acc
                ELSE Append(acc, [key |-> key,
                                  id |-> IF toolCall.id # "" THEN toolCall.id ELSE key,
                                  name |-> "",
                                  arguments |-> <<>>])
        i == CHOOSE j \in 1..Len(acc1) : acc1[j].key = key
        named == IF toolCall.name # ""
                 THEN [acc1 EXCEPT ![i].name = toolCall.name]
                 ELSE acc1
    IN  IF Len(toolCall.arguments) > 0
        THEN [named EXCEPT ![i].arguments = toolCall.arguments]
        ELSE named

\* Upsert with the arguments put in front of the buffer instead of after it.
UpsertPrepend(acc, toolCall, now) ==
    LET key == toolCallId(toolCall, now)
        acc1 == IF Has(acc, key) THEN acc
                ELSE Append(acc, [key |-> key,
                                  id |-> IF toolCall.id # "" THEN toolCall.id ELSE key,
                                  name |-> "",
                                  arguments |-> <<>>])
        i == CHOOSE j \in 1..Len(acc1) : acc1[j].key = key
        named == IF toolCall.name # ""
                 THEN [acc1 EXCEPT ![i].name = toolCall.name]
                 ELSE acc1
    IN  IF Len(toolCall.arguments) > 0
        THEN [named EXCEPT ![i].arguments = toolCall.arguments \o named[i].arguments]
        ELSE named

\* The body of the for loop over choice.delta.tool_calls, for one fragment.
Upsert(acc, toolCall, now) ==
    LET key == toolCallId(toolCall, now)
        acc1 == IF Has(acc, key) THEN acc
                ELSE Append(acc, [key |-> key,
                                  id |-> IF toolCall.id # "" THEN toolCall.id ELSE key,
                                  name |-> "",
                                  arguments |-> <<>>])
        i == CHOOSE j \in 1..Len(acc1) : acc1[j].key = key
        named == IF toolCall.name # ""
                 THEN [acc1 EXCEPT ![i].name = toolCall.name]
                 ELSE acc1
    IN  IF Len(toolCall.arguments) > 0
        THEN [named EXCEPT ![i].arguments = named[i].arguments \o toolCall.arguments]
        ELSE named

\* The whole for loop over choice.delta.tool_calls.
RECURSIVE Accumulate(_, _, _)
Accumulate(acc, tcs, now) ==
    IF Len(tcs) = 0 THEN acc
    ELSE Accumulate(Upsert(acc, Head(tcs), now), Tail(tcs), now)

\* isValidJson(str)
isValidJson(str) == JsonParses(str)

\* IsComplete without the test that the arguments are non-empty.
IsCompleteOrEmpty(toolCall) ==
    /\ toolCall.name # ""
    /\ Len(toolCall.arguments) = 0 \/ isValidJson(toolCall.arguments)

\* The predicate of the early-completion check.
IsComplete(toolCall) ==
    /\ toolCall.name # ""
    /\ Len(toolCall.arguments) > 0
    /\ isValidJson(toolCall.arguments)

\* The early-completion check left out (the stream is flushed at its end only).
allToolCallsCompleteNever(acc) == FALSE

\* The early-completion check satisfied by one complete call among the tracked ones.
allToolCallsCompleteSome(acc) == \E i \in 1..Len(acc) : IsComplete(acc[i])

\* Array.from(accumulatedToolCalls.values()).every(...)
allToolCallsComplete(acc) == \A i \in 1..Len(acc) : IsComplete(acc[i])

\* isToolCallReady that also asks for a non-empty arguments buffer.
isToolCallReadyWithArguments(toolCall) ==
    IF toolCall.name = "" THEN FALSE
    ELSE Len(toolCall.arguments) > 0 /\ isValidJson(toolCall.arguments)

\* isToolCallReady(toolCall)
isToolCallReady(toolCall) ==
    IF toolCall.name = "" THEN FALSE
    ELSE IF Len(toolCall.arguments) = 0 THEN TRUE
    ELSE isValidJson(toolCall.arguments)

\* const readyToolCalls = Array.from(...).filter(isToolCallReady)
RECURSIVE readyToolCalls(_)
readyToolCalls(acc) ==
    IF Len(acc) = 0 THEN <<>>
    ELSE IF isToolCallReady(Head(acc))
         THEN <<Head(acc)>> \o readyToolCalls(Tail(acc))
         ELSE readyToolCalls(Tail(acc))

\* ------------------------------------------------------------ responses
\* A FunctionCall {id, name, args}.
FunctionCall(id, name, args) == [id |-> id, name |-> name, args |-> args]

NoCall == FunctionCall("", "", EmptyObject)

\* The parts of a candidate's content: {text} or {functionCall}.
TextPart(text) == [isCall |-> FALSE, text |-> text, functionCall |-> NoCall]
CallPart(fc) == [isCall |-> TRUE, text |-> <<>>, functionCall |-> fc]

\* A GenerateContentResponse; functionCalls = <<>> stands for the property
\* being absent (the code sets it only to a non-empty array).
Response(parts, functionCalls, finishReason) ==
    [parts |-> parts, functionCalls |-> functionCalls, finishReason |-> finishReason]

\* The repair of an argument text that JSON.parse rejected.
fixedArgs(arguments) ==
    LET t0 == Trim(arguments)
        t1 == IF Len(t0) > 0 /\ t0[Len(t0)] = ","
              THEN SubSeq(t0, 1, Len(t0) - 1)
              ELSE t0
        t2 == IF Len(t1) > 0 /\ t1[1] = "{" /\ t1[Len(t1)] # "}"
              THEN t1 \o <<"}">>
              ELSE t1
    IN  IF Len(t2) > 0 /\ t2[1] = "[" /\ t2[Len(t2)] # "]"
        THEN t2 \o <<"]">>
        ELSE t2

\* The args of one call in createToolCallResponse.
parseArguments(arguments) ==
    IF Len(arguments) = 0 THEN EmptyObject
    ELSE IF JsonParses(arguments) THEN JSONparse(arguments)
    ELSE IF JsonParses(fixedArgs(arguments)) THEN JSONparse(fixedArgs(arguments))
    ELSE IF Len(Trim(arguments)) > 0 THEN RawArguments(arguments)
    ELSE EmptyObject

\* toFunctionCall with a fresh id generated for every call.
toFunctionCallFreshId(toolCall) ==
    LET functionName == IF toolCall.name # "" THEN toolCall.name ELSE "unknown_function"
    IN  FunctionCall("generated", functionName, parseArguments(toolCall.arguments))

\* The FunctionCall built for one ready call.
toFunctionCall(toolCall) ==
    LET functionName == IF toolCall.name # "" THEN toolCall.name ELSE "unknown_function"
    IN  FunctionCall(IF toolCall.id # "" THEN toolCall.id ELSE "generated",
                     functionName,
                     parseArguments(toolCall.arguments))

\* The calls that createToolCallResponse lists: one per ready call, in Map order.
functionCallsOf(acc) ==
    LET ready == readyToolCalls(acc)
    IN  [i \in 1..Len(ready) |-> toFunctionCall(ready[i])]

\* createToolCallResponse without the functionCalls property being set.
createToolCallResponseUnset(acc) ==
    LET calls == functionCallsOf(acc)
    IN  IF Len(calls) = 0
        THEN Response(<<TextPart(<<>>)>>, <<>>, "STOP")
        ELSE Response([i \in 1..Len(calls) |-> CallPart(calls[i])], <<>>, "STOP")

\* createToolCallResponse(accumulatedToolCalls)
createToolCallResponse(acc) ==
    LET calls == functionCallsOf(acc)
    IN  IF Len(calls) = 0
        THEN Response(<<TextPart(<<>>)>>, <<>>, "STOP")
        ELSE Response([i \in 1..Len(calls) |-> CallPart(calls[i])], calls, "STOP")

\* fromQwenStreamResponse with the content trimmed before it is forwarded.
fromQwenStreamResponseTrimmed(chunk) ==
    Response(IF Len(chunk.content) > 0 THEN <<TextPart(Trim(chunk.content))>> ELSE <<>>,
             <<>>,
             chunk.finish)

\* fromQwenStreamResponse(chunk)
fromQwenStreamResponse(chunk) ==
    Response(IF Len(chunk.content) > 0 THEN <<TextPart(chunk.content)>> ELSE <<>>,
             <<>>,
             chunk.finish)

\* ------------------------------------------------------------ the inputs
\* Date.now() at the moment a fragment without index and id is keyed.
Clock == {100, 101}

Fragments ==
    { Frag(0, "c1", "get_weather", <<>>),
      Frag(0, "", "", <<"{", "a">>),
      Frag(0, "", "", <<"}">>),
      Frag(0, "", "get_weather", <<"{", "}">>),
      Frag(1, "", "g", <<"{", "a", "}">>),
      Frag(1, "", "", <<"{">>) }

Lines ==
    { DataLine(<<f>>, <<>>, "") : f \in Fragments }
    \cup { DataLine(<<Frag(0, "", "get_weather", <<"{", "}">>), Frag(1, "", "g", <<"{", "a", "}">>)>>, <<>>, ""),
           DataLine(<<>>, <<"t">>, ""),
           DataLine(<<>>, <<"u">>, ""),
           DataLine(<<>>, <<" ">>, ""),
           DataLine(<<>>, <<>>, "tool_calls"),
           DataLine(<<>>, <<"z">>, "stop"),
           DoneLine, MalformedLine, BlankLine }

\* The complete lines that one read can deliver.
Chunks(L, room) ==
    UNION { [1..n -> L] : n \in 1..(IF room < MaxLines THEN room ELSE MaxLines) }

\* ------------------------------------------------------------ the actions
Init ==
    /\ pc = "read"
    /\ lines = <<>>
    /\ accumulatedToolCalls = <<>>
    /\ hasOutputToolCalls = FALSE
    /\ out = <<>>
    /\ released = 0
    /\ fed = <<>>
    /\ taken = 0
    /\ parked = Fresh
    /\ sent = <<>>
    /\ buffer = <<>>
    /\ body = <<>>
    /\ position = 0

\* The flush without the one-shot flag.
FlushesUnguarded == Len(accumulatedToolCalls) > 0

\* The flush without the test that a call is tracked.
FlushesAlways == ~hasOutputToolCalls

\* The flush guarded by the one-shot flag: what is yielded, if anything.
Flushes == Len(accumulatedToolCalls) > 0 /\ ~hasOutputToolCalls

\* The next line of the for loop is taken.
Take ==
    /\ pc = "lines"
    /\ fed' = Append(fed, Head(lines))
    /\ lines' = Tail(lines)

\* Continue with the next read issued while lines of the chunk remain.
ContinueToRead == pc' = "read"

\* The handler falls through (or continues) to the next line, or to the next read.
Continue == pc' = IF Len(lines) > 1 THEN "lines" ELSE "read"

\* A return that releases the reader and lets the loop go on.
ReturnContinues == Continue /\ released' = released + 1

\* return: the finally block releases the reader.
Return == pc' = "done" /\ released' = released + 1

\* const { done, value } = await reader.read(), with value holding complete lines.
ReadChunk(L, maxEvents) ==
    /\ pc = "read"
    /\ Len(fed) < maxEvents
    /\ \E chunk \in Chunks(L, maxEvents - Len(fed)) : lines' = chunk
    /\ pc' = "lines"
    /\ UNCHANGED <<accumulatedToolCalls, hasOutputToolCalls, out, released, fed>>
    /\ UNCHANGED <<taken, parked, sent, buffer, body, position>>

\* reader.read() reports done.
ReadDone ==
    /\ pc = "read"
    /\ IF Flushes
       THEN /\ out' = Append(out, createToolCallResponse(accumulatedToolCalls))
            /\ hasOutputToolCalls' = TRUE
       ELSE UNCHANGED <<out, hasOutputToolCalls>>
    /\ Return
    /\ UNCHANGED <<lines, accumulatedToolCalls, fed>>
    /\ UNCHANGED <<taken, parked, sent, buffer, body, position>>

\* reader.read() rejects (transport error, abort): catch, rethrow, finally.
ReadError ==
    /\ pc = "read"
    /\ IF Flushes
       THEN out' = Append(out, createToolCallResponse(accumulatedToolCalls))
       ELSE UNCHANGED out
    /\ pc' = "failed"
    /\ released' = released + 1
    /\ UNCHANGED <<lines, accumulatedToolCalls, hasOutputToolCalls, fed>>
    /\ UNCHANGED <<taken, parked, sent, buffer, body, position>>

\* A line that is empty or does not start with "data: ".
SkipLine ==
    /\ Take
    /\ Head(lines).kind = "blank"
    /\ Continue
    /\ UNCHANGED <<accumulatedToolCalls, hasOutputToolCalls, out, released>>
    /\ UNCHANGED <<taken, parked, sent, buffer, body, position>>

\* data: [DONE]
DoneSentinel ==
    /\ Take
    /\ Head(lines).kind = "done"
    /\ IF Flushes
       THEN /\ out' = Append(out, createToolCallResponse(accumulatedToolCalls))
            /\ hasOutputToolCalls' = TRUE
       ELSE UNCHANGED <<out, hasOutputToolCalls>>
    /\ Return
    /\ UNCHANGED accumulatedToolCalls
    /\ UNCHANGED <<taken, parked, sent, buffer, body, position>>

\* MalformedChunk with the parse error reaching the outer catch: flush, rethrow.
MalformedChunkAborts ==
    /\ Take
    /\ Head(lines).kind = "malformed"
    /\ IF Flushes
       THEN out' = Append(out, createToolCallResponse(accumulatedToolCalls))
       ELSE UNCHANGED out
    /\ pc' = "failed"
    /\ released' = released + 1
    /\ UNCHANGED <<accumulatedToolCalls, hasOutputToolCalls>>
    /\ UNCHANGED <<taken, parked, sent, buffer, body, position>>

\* JSON.parse(data) throws: the inner catch logs and the loop goes on.
MalformedChunk ==
    /\ Take
    /\ Head(lines).kind = "malformed"
    /\ Continue
    /\ UNCHANGED <<accumulatedToolCalls, hasOutputToolCalls, out, released>>
    /\ UNCHANGED <<taken, parked, sent, buffer, body, position>>

\* ToolCallsDelta with the early emission not guarded by the one-shot flag.
ToolCallsDeltaUnguarded ==
    /\ Take
    /\ Head(lines).kind = "data"
    /\ Len(Head(lines).tcs) > 0
    /\ \E now \in Clock :
          LET acc == Accumulate(accumulatedToolCalls, Head(lines).tcs, now)
          IN  /\ accumulatedToolCalls' = acc
              /\ IF allToolCallsComplete(acc) /\ Len(acc) > 0
                 THEN /\ out' = Append(out, createToolCallResponse(acc))
                      /\ hasOutputToolCalls' = TRUE
                 ELSE UNCHANGED <<out, hasOutputToolCalls>>
    /\ Continue
    /\ UNCHANGED released
    /\ UNCHANGED <<taken, parked, sent, buffer, body, position>>

\* ToolCallsDelta that falls through to the text branch instead of continuing.
ToolCallsDeltaForwardsText ==
    /\ Take
    /\ Head(lines).kind = "data"
    /\ Len(Head(lines).tcs) > 0
    /\ \E now \in Clock :
          LET acc == Accumulate(accumulatedToolCalls, Head(lines).tcs, now)
              text == IF ~IsBlank(Head(lines).content)
                      THEN <<fromQwenStreamResponse(Head(lines))>>
                      ELSE <<>>
          IN  /\ accumulatedToolCalls' = acc
              /\ IF allToolCallsComplete(acc) /\ Len(acc) > 0 /\ ~hasOutputToolCalls
                 THEN /\ out' = Append(out, createToolCallResponse(acc)) \o text
                      /\ hasOutputToolCalls' = TRUE
                 ELSE /\ out' = out \o text
                      /\ UNCHANGED hasOutputToolCalls
    /\ Continue
    /\ UNCHANGED released
    /\ UNCHANGED <<taken, parked, sent, buffer, body, position>>

\* A delta with tool_calls: accumulate, early-completion check, continue.
ToolCallsDelta ==
    /\ Take
    /\ Head(lines).kind = "data"
    /\ Len(Head(lines).tcs) > 0
    /\ \E now \in Clock :
          LET acc == Accumulate(accumulatedToolCalls, Head(lines).tcs, now)
          IN  /\ accumulatedToolCalls' = acc
              /\ IF allToolCallsComplete(acc) /\ Len(acc) > 0 /\ ~hasOutputToolCalls
                 THEN /\ out' = Append(out, createToolCallResponse(acc))
                      /\ hasOutputToolCalls' = TRUE
                 ELSE UNCHANGED <<out, hasOutputToolCalls>>
    /\ Continue
    /\ UNCHANGED released
    /\ UNCHANGED <<taken, parked, sent, buffer, body, position>>

\* FinishDelta with the flush yielded before the text of the delta.
FinishDeltaCallsFirst ==
    /\ Take
    /\ Head(lines).kind = "data"
    /\ Len(Head(lines).tcs) = 0
    /\ Head(lines).finish # ""
    /\ LET text == IF ~IsBlank(Head(lines).content)
                   THEN <<fromQwenStreamResponse(Head(lines))>>
                   ELSE <<>>
       IN  IF Flushes
           THEN /\ out' = out \o <<createToolCallResponse(accumulatedToolCalls)>> \o text
                /\ hasOutputToolCalls' = TRUE
           ELSE /\ out' = out \o text
                /\ UNCHANGED hasOutputToolCalls
    /\ Return
    /\ UNCHANGED accumulatedToolCalls
    /\ UNCHANGED <<taken, parked, sent, buffer, body, position>>

\* A delta without tool_calls that carries a finish_reason.
FinishDelta ==
    /\ Take
    /\ Head(lines).kind = "data"
    /\ Len(Head(lines).tcs) = 0
    /\ Head(lines).finish # ""
    /\ LET text == IF ~IsBlank(Head(lines).content)
                   THEN <<fromQwenStreamResponse(Head(lines))>>
                   ELSE <<>>
       IN  IF Flushes
           THEN /\ out' = out \o text \o <<createToolCallResponse(accumulatedToolCalls)>>
                /\ hasOutputToolCalls' = TRUE
           ELSE /\ out' = out \o text
                /\ UNCHANGED hasOutputToolCalls
    /\ Return
    /\ UNCHANGED accumulatedToolCalls
    /\ UNCHANGED <<taken, parked, sent, buffer, body, position>>

\* TextDelta with the text held back while calls are pending.
TextDeltaHeld ==
    /\ Take
    /\ Head(lines).kind = "data"
    /\ Len(Head(lines).tcs) = 0
    /\ Head(lines).finish = ""
    /\ out' = IF ~IsBlank(Head(lines).content) /\ ~Flushes
              THEN Append(out, fromQwenStreamResponse(Head(lines)))
              ELSE out
    /\ Continue
    /\ UNCHANGED <<accumulatedToolCalls, hasOutputToolCalls, released>>
    /\ UNCHANGED <<taken, parked, sent, buffer, body, position>>

\* TextDelta with the pending calls dropped when text goes out.
TextDeltaClears ==
    /\ Take
    /\ Head(lines).kind = "data"
    /\ Len(Head(lines).tcs) = 0
    /\ Head(lines).finish = ""
    /\ out' = IF ~IsBlank(Head(lines).content)
              THEN Append(out, fromQwenStreamResponse(Head(lines)))
              ELSE out
    /\ accumulatedToolCalls' = IF ~IsBlank(Head(lines).content) THEN <<>> ELSE accumulatedToolCalls
    /\ Continue
    /\ UNCHANGED <<hasOutputToolCalls, released>>
    /\ UNCHANGED <<taken, parked, sent, buffer, body, position>>

\* A delta with neither tool_calls nor finish_reason: text is passed through.
TextDelta ==
    /\ Take
    /\ Head(lines).kind = "data"
    /\ Len(Head(lines).tcs) = 0
    /\ Head(lines).finish = ""
    /\ out' = IF ~IsBlank(Head(lines).content)
              THEN Append(out, fromQwenStreamResponse(Head(lines)))
              ELSE out
    /\ Continue
    /\ UNCHANGED <<accumulatedToolCalls, hasOutputToolCalls, released>>
    /\ UNCHANGED <<taken, parked, sent, buffer, body, position>>

ProcessLine ==
    \/ SkipLine
    \/ DoneSentinel
    \/ MalformedChunk
    \/ ToolCallsDelta
    \/ FinishDelta
    \/ TextDelta

Next ==
    \/ ReadChunk(Lines, MaxEvents)
    \/ ReadDone
    \/ ReadError
    \/ ProcessLine

Spec == Init /\ [][Next]_vars

\* ------------------------------------------------- splitting one argument
\* The argument texts that are split, and the pieces they are split into.
Targets == { <<"{", "}">>, <<"{", "a", "}">>, <<"{", "a", ",", "b", "}">> }

Pieces == UNION { { SubSeq(t, i, j) : i \in 1..Len(t), j \in 1..Len(t) } : t \in Targets } \ {<<>>}

IsPrefix(s, t) == Len(s) <= Len(t) /\ SubSeq(t, 1, Len(s)) = s

\* The argument fragments that the lines of ls carry, concatenated in order.
RECURSIVE ConcatArgs(_)
ConcatArgs(ls) ==
    IF Len(ls) = 0 THEN <<>>
    ELSE (IF Len(Head(ls).tcs) > 0 THEN Head(ls).tcs[1].arguments ELSE <<>>)
         \o ConcatArgs(Tail(ls))

\* The tool-call deltas among the lines ls.
RECURSIVE ToolLines(_)
ToolLines(ls) ==
    IF Len(ls) = 0 THEN <<>>
    ELSE IF Len(Head(ls).tcs) > 0 THEN <<Head(ls)>> \o ToolLines(Tail(ls))
         ELSE ToolLines(Tail(ls))

SplitLines ==
    { DataLine(<<Frag(0, "", n, p)>>, <<>>, "") : n \in {"", "get_weather"}, p \in Pieces }

Terminators == { DataLine(<<>>, <<>>, "tool_calls"), DoneLine }

\* ls is the beginning of a stream that delivers one call at slot 0, its name
\* on the first fragment and its argument text cut into at most MaxFragments
\* non-empty pieces, and then ends.
IsSplitRun(ls) ==
    /\ Len(ToolLines(ls)) <= MaxFragments
    /\ \E t \in Targets : IsPrefix(ConcatArgs(ls), t)
    /\ \A i \in 1..Len(ls) :
          /\ ls[i] \in Terminators => i = Len(ls) /\ ConcatArgs(ls) \in Targets
          /\ ls[i] \notin Terminators => (ls[i].tcs[1].name # "" <=> i = 1)

\* A read of the splitting specification.
ReadSplit ==
    /\ pc = "read"
    /\ \E chunk \in Chunks(SplitLines \cup Terminators, MaxFragments + 1 - Len(fed)) :
          /\ IsSplitRun(fed \o chunk)
          /\ lines' = chunk
    /\ pc' = "lines"
    /\ UNCHANGED <<accumulatedToolCalls, hasOutputToolCalls, out, released, fed>>
    /\ UNCHANGED <<taken, parked, sent, buffer, body, position>>

NextSplit ==
    \/ ReadSplit
    \/ ReadDone
    \/ ToolCallsDelta
    \/ FinishDelta
    \/ DoneSentinel

SpecSplit == Init /\ [][NextSplit]_vars

\* ------------------------------------------------------- slot identity
\* Lines of one streaming call in the slot specification.
MaxSlotEvents == 4

\* Fragments with and without index, id and name, for two indexes.
SlotFragments ==
    { Frag(0, "c1", "get_weather", <<>>),
      Frag(0, "", "", <<"{">>),
      Frag(0, "c2", "g", <<"}">>),
      Frag(1, "", "g", <<"{">>),
      Frag(1, "c2", "", <<"}">>),
      Frag(NoIndex, "c1", "get_weather", <<"{">>),
      Frag(NoIndex, "c1", "", <<"}">>),
      Frag(NoIndex, "", "g", <<"{", "}">>) }

SlotLines ==
    { DataLine(<<f>>, <<>>, "") : f \in SlotFragments }
    \cup { DataLine(<<Frag(1, "", "g", <<"{", "}">>), Frag(0, "", "get_weather", <<"{", "}">>)>>, <<>>, ""),
           DataLine(<<>>, <<>>, "tool_calls"),
           DoneLine }

NextSlots ==
    \/ ReadChunk(SlotLines, MaxSlotEvents)
    \/ ReadDone
    \/ ReadError
    \/ ToolCallsDelta
    \/ FinishDelta
    \/ DoneSentinel

SpecSlots == Init /\ [][NextSlots]_vars

\* ------------------------------------------- the non-streaming translator
\* `${functionName}-${Date.now()}-${Math.random()...}`: one id per clock value.
GeneratedId(functionName, now) ==
    CASE functionName = "get_weather" /\ now = 100 -> "get_weather-100-a1b2c3"
      [] functionName = "get_weather" -> "get_weather-101-d4e5f6"
      [] functionName = "g" /\ now = 100 -> "g-100-a1b2c3"
      [] functionName = "g" -> "g-101-d4e5f6"
      [] now = 100 -> "unknown_function-100-a1b2c3"
      [] OTHER -> "unknown_function-101-d4e5f6"

\* The args of one tool call in fromQwenGenerateResponse.
translateArguments(arguments) ==
    IF Len(arguments) = 0 THEN EmptyObject
    ELSE IF JsonParses(arguments) THEN JSONparse(arguments)
    ELSE IF JsonParses(fixedArgs(arguments)) THEN JSONparse(fixedArgs(arguments))
    ELSE IF Len(Trim(arguments)) > 0 THEN RawArguments(arguments)
    ELSE EmptyObject

\* translateToolCall with the provider's name passed on as it is.
translateToolCallPlain(toolCall, now) ==
    FunctionCall(IF toolCall.id # "" THEN toolCall.id ELSE GeneratedId(toolCall.name, now),
                 toolCall.name,
                 translateArguments(toolCall.arguments))

\* The FunctionCall built for one element of message.tool_calls.
translateToolCall(toolCall, now) ==
    LET functionName == IF toolCall.name # "" THEN toolCall.name ELSE "unknown_function"
    IN  FunctionCall(IF toolCall.id # "" THEN toolCall.id ELSE GeneratedId(functionName, now),
                     functionName,
                     translateArguments(toolCall.arguments))

\* A complete wire response: choices[0].message and finish_reason.
WireResponse(tool_calls, content, finish_reason) ==
    [kind |-> "response", tcs |-> tool_calls, content |-> content, finish |-> finish_reason]

\* fromQwenGenerateResponse with the text part pushed after the call parts.
fromQwenGenerateResponseTextLast(qwenResponse, now) ==
    LET calls == [i \in 1..Len(qwenResponse.tcs) |-> translateToolCall(qwenResponse.tcs[i], now)]
    IN  Response([i \in 1..Len(calls) |-> CallPart(calls[i])]
                 \o (IF Len(qwenResponse.content) > 0 THEN <<TextPart(qwenResponse.content)>> ELSE <<>>),
                 calls,
                 IF qwenResponse.finish # "" THEN qwenResponse.finish ELSE "STOP")

\* fromQwenGenerateResponse(qwenResponse)
fromQwenGenerateResponse(qwenResponse, now) ==
    LET calls == [i \in 1..Len(qwenResponse.tcs) |-> translateToolCall(qwenResponse.tcs[i], now)]
    IN  Response((IF Len(qwenResponse.content) > 0 THEN <<TextPart(qwenResponse.content)>> ELSE <<>>)
                 \o [i \in 1..Len(calls) |-> CallPart(calls[i])],
                 calls,
                 IF qwenResponse.finish # "" THEN qwenResponse.finish ELSE "STOP")

\* Tool calls of a wire response that the model translates.
MaxToolCalls == 2

ArgumentTexts ==
    { <<>>, <<"{", "a", "}">>, <<"{", "a">>, <<"{", "a", ",">>, <<"}">>, <<"1">>, <<" ">> }

\* A wire tool call that has no function object: {id, type} alone.
BareToolCall(id) == [index |-> NoIndex, id |-> id]

\* toolCall.function is defined.
hasFunction(toolCall) == "name" \in DOMAIN toolCall

\* The loop of fromQwenGenerateResponse reads toolCall.function.name and
\* toolCall.function.arguments of every tool call: a tool call without its
\* function object makes the read throw a TypeError, which nothing catches.
\* Absent choices, content, tool_calls, name and usage are read through
\* ?. and || and do not throw.
fromQwenGenerateResponseThrows(qwenResponse) ==
    \E i \in 1..Len(qwenResponse.tcs) : ~hasFunction(qwenResponse.tcs[i])

WireToolCalls ==
    { Frag(NoIndex, id, name, a) : id \in {"", "x"}, name \in {"", "get_weather"}, a \in ArgumentTexts }
    \cup { BareToolCall("x") }

WireResponses ==
    { WireResponse(tcs, content, finish) :
        tcs \in UNION { [1..n -> WireToolCalls] : n \in 0..MaxToolCalls },
        content \in {<<>>, <<"t">>},
        finish \in {"", "tool_calls"} }

\* generateContent: the response of the API call is translated and returned;
\* an exception of the translator rejects the promise of generateContent.
GenerateContent ==
    /\ pc = "read"
    /\ fed = <<>>
    /\ \E qwenResponse \in WireResponses : \E now \in Clock :
          /\ fed' = <<qwenResponse>>
          /\ IF fromQwenGenerateResponseThrows(qwenResponse)
             THEN out' = <<>> /\ pc' = "failed"
             ELSE out' = <<fromQwenGenerateResponse(qwenResponse, now)>> /\ pc' = "done"
    /\ UNCHANGED <<lines, accumulatedToolCalls, hasOutputToolCalls, released>>
    /\ UNCHANGED <<taken, parked, sent, buffer, body, position>>

SpecTranslate == Init /\ [][GenerateContent]_vars

\* Both paths of the adapter: generateContent and generateContentStream.
NextAdapter ==
    \/ GenerateContent
    \/ NextSlots

SpecAdapter == Init /\ [][NextAdapter]_vars

\* ============================================================ properties
Last(s) == s[Len(s)]

\* A response that carries function calls.
CarriesCalls(r) == Len(r.functionCalls) > 0

\* The positions in out of the responses that carry function calls.
CallEmissions == { i \in 1..Len(out) : CarriesCalls(out[i]) }

\* The function calls handed to the caller so far.
EmittedCalls == UNION { { out[i].functionCalls[j] : j \in 1..Len(out[i].functionCalls) } : i \in CallEmissions }

\* The slot keys referenced by the fragments of the lines ls.
SlotsReferenced(ls) ==
    UNION { { toolCallId(ls[i].tcs[j], 100) : j \in 1..Len(ls[i].tcs) } : i \in 1..Len(ls) }

\* The generator completed on a finish_reason delta.
EndedByFinish ==
    pc = "done" /\ Len(fed) > 0 /\ Last(fed).kind = "data"
    /\ Len(Last(fed).tcs) = 0 /\ Last(fed).finish # ""

\* The generator completed on [DONE] or on the reader reporting the end.
EndedByEndOfStream == pc = "done" /\ ~EndedByFinish

\* The pending call e has been handed to the caller.
EmittedIn(o, e) ==
    \E i \in 1..Len(o) : \E j \in 1..Len(o[i].functionCalls) : o[i].functionCalls[j].id = e.id

IsEmitted(e) == EmittedIn(out, e)

\* ---- C1
\* C1: whatever lines, end of data or read error a streaming call meets, at
\* most one of the responses it yields carries function calls.
C1_AtMostOneCallEmission == Cardinality(CallEmissions) <= 1

\* C1 witness: the calls were emitted early, a text was forwarded after them
\* and a finish_reason delta then ended the stream without a second emission.
C1_Witness ==
    /\ EndedByFinish
    /\ Len(out) >= 2
    /\ CarriesCalls(out[1])
    /\ Cardinality(CallEmissions) = 1

\* ---- C2
\* C2 (as claimed): a turn that referenced a slot and ended normally has
\* emitted exactly one response with function calls, holding exactly one
\* call for every referenced slot.
C2_OneCallPerSlot ==
    (pc = "done" /\ SlotsReferenced(fed) # {}) =>
        /\ Cardinality(CallEmissions) = 1
        /\ \A i \in CallEmissions :
              /\ Len(out[i].functionCalls) = Cardinality(SlotsReferenced(fed))
              /\ \A e \in 1..Len(accumulatedToolCalls) : IsEmitted(accumulatedToolCalls[e])

\* ---- C3
\* C3: when the argument text of one call (a JSON object) has arrived, cut
\* into 1 to MaxFragments non-empty fragments for the same slot, exactly one
\* call has been emitted and its args are the value of the whole text.
C3_SplitArgsParsed ==
    ConcatArgs(fed) \in Targets =>
        /\ Cardinality(CallEmissions) = 1
        /\ \A i \in CallEmissions :
              /\ Len(out[i].functionCalls) = 1
              /\ out[i].functionCalls[1].name = "get_weather"
              /\ out[i].functionCalls[1].args = JSONparse(ConcatArgs(fed))

\* C3 witness: a two-member object delivered in five fragments and emitted.
C3_Witness ==
    /\ Len(ToolLines(fed)) = 5
    /\ ConcatArgs(fed) = <<"{", "a", ",", "b", "}">>
    /\ Cardinality(CallEmissions) = 1
    /\ EmittedCalls = { FunctionCall("tool_0", "get_weather",
                          [kind |-> "object", members |-> {"a", "b"}, digits |-> 0, raw |-> <<>>, nested |-> <<>>]) }

\* ---- C4
\* Scenario A: the name and id first, the arguments in two later fragments,
\* then finish_reason "tool_calls".
ScenarioA ==
    << DataLine(<<Frag(0, "c1", "get_weather", <<>>)>>, <<>>, ""),
       DataLine(<<Frag(0, "", "", <<"{", "a">>)>>, <<>>, ""),
       DataLine(<<Frag(0, "", "", <<"}">>)>>, <<>>, ""),
       DataLine(<<>>, <<>>, "tool_calls") >>

ScenarioACall ==
    FunctionCall("c1", "get_weather",
                 [kind |-> "object", members |-> {"a"}, digits |-> 0, raw |-> <<>>, nested |-> <<>>])

\* C4: along Scenario A nothing is emitted before the arguments are whole,
\* and from then on out holds exactly the one response with the one call.
C4_ScenarioA ==
    (IsPrefix(fed, ScenarioA) /\ (pc \in {"read", "lines"} \/ fed = ScenarioA)) =>
        IF Len(fed) < 3
        THEN out = <<>>
        ELSE out = << Response(<<CallPart(ScenarioACall)>>, <<ScenarioACall>>, "STOP") >>

\* C4 witness: Scenario A was processed to its end.
C4_Witness == fed = ScenarioA /\ pc = "done" /\ EmittedCalls = {ScenarioACall}

\* ---- C5
\* A step that processes a tool-call delta.
ToolCallsStep == fed' # fed /\ Len(Last(fed').tcs) > 0

\* C5 (as claimed): after a tool-call delta, if every tracked call has a
\* name and arguments that are empty or parse, the calls are emitted at once.
C5_EmittedWhenReady ==
    [][(ToolCallsStep
        /\ \A i \in 1..Len(accumulatedToolCalls') :
              /\ accumulatedToolCalls'[i].name # ""
              /\ \/ Len(accumulatedToolCalls'[i].arguments) = 0
                 \/ JsonParses(accumulatedToolCalls'[i].arguments))
       => \A i \in 1..Len(accumulatedToolCalls') : EmittedIn(out', accumulatedToolCalls'[i])]_vars

\* C5 (amended): after a tool-call delta, if nothing was emitted before and
\* every tracked call has a name and non-empty arguments that parse, one
\* response with all the tracked calls is emitted in that very step.
C5_EarlyCompletion ==
    [][(ToolCallsStep
        /\ ~hasOutputToolCalls
        /\ \A i \in 1..Len(accumulatedToolCalls') :
              /\ accumulatedToolCalls'[i].name # ""
              /\ Len(accumulatedToolCalls'[i].arguments) > 0
              /\ JsonParses(accumulatedToolCalls'[i].arguments))
       => /\ Len(out') = Len(out) + 1
          /\ Len(Last(out').functionCalls) = Len(accumulatedToolCalls')
          /\ \A i \in 1..Len(accumulatedToolCalls') :
                /\ Last(out').functionCalls[i].id = accumulatedToolCalls'[i].id
                /\ Last(out').functionCalls[i].name = accumulatedToolCalls'[i].name
                /\ Last(out').functionCalls[i].args = JSONparse(accumulatedToolCalls'[i].arguments)
          /\ pc' # "done"]_vars

\* C5 witness: the calls were emitted while the stream is still open, with
\* no finish_reason, [DONE] or end of data seen.
C5_Witness ==
    /\ pc \in {"read", "lines"}
    /\ Cardinality(CallEmissions) = 1
    /\ Len(fed) > 0
    /\ Len(Last(fed).tcs) > 0
    /\ Last(out).functionCalls # <<>>

\* ---- C6
\* The texts of the responses o that forward text, in order.
RECURSIVE ForwardedTexts(_)
ForwardedTexts(o) ==
    IF Len(o) = 0 THEN <<>>
    ELSE (IF Len(Head(o).parts) > 0 /\ ~Head(o).parts[1].isCall /\ Len(Head(o).parts[1].text) > 0
          THEN <<Head(o).parts[1].text>>
          ELSE <<>>)
         \o ForwardedTexts(Tail(o))

\* The texts of the text deltas among the lines ls (deltas without tool-call
\* fragments whose content is not blank), in order.
RECURSIVE ArrivedTexts(_)
ArrivedTexts(ls) ==
    IF Len(ls) = 0 THEN <<>>
    ELSE (IF Head(ls).kind = "data" /\ Len(Head(ls).tcs) = 0 /\ ~IsBlank(Head(ls).content)
          THEN <<Head(ls).content>>
          ELSE <<>>)
         \o ArrivedTexts(Tail(ls))

\* C6: once a line has been processed, the texts forwarded to the caller are
\* exactly the texts of the text deltas processed so far, in arrival order,
\* whether or not tool calls are pending.
C6_TextInOrder == ForwardedTexts(out) = ArrivedTexts(fed)

\* C6 witness: two texts were forwarded in order while a call is tracked and
\* not yet emitted.
C6_Witness ==
    /\ pc = "read"
    /\ Len(accumulatedToolCalls) > 0
    /\ ~hasOutputToolCalls
    /\ ForwardedTexts(out) = << <<"t">>, <<"u">> >>
    /\ Len(Last(fed).tcs) = 0

\* ---- C7
\* C7 (as claimed): when a delta with a finish_reason has been processed,
\* every accumulated call has been emitted, the incomplete ones included.
C7_FinishFlushesAll ==
    (Len(fed) > 0 /\ Last(fed).kind = "data" /\ Last(fed).finish # "") =>
        \A i \in 1..Len(accumulatedToolCalls) : IsEmitted(accumulatedToolCalls[i])

\* ---- C8
\* A step that processes a finish_reason delta carrying text while calls
\* are accumulated and nothing was emitted.
FinishWithTextStep ==
    /\ fed' # fed
    /\ Last(fed').kind = "data"
    /\ Len(Last(fed').tcs) = 0
    /\ Last(fed').finish # ""
    /\ ~IsBlank(Last(fed').content)
    /\ Len(accumulatedToolCalls) > 0
    /\ ~hasOutputToolCalls

\* C8 (as claimed): the function-call response comes first and the text of
\* the finish_reason delta is the last response.
C8_CallsBeforeText ==
    [][FinishWithTextStep =>
         /\ Len(out') = Len(out) + 2
         /\ Last(out') = Response(<<TextPart(Last(fed').content)>>, <<>>, Last(fed').finish)]_vars

\* C8 (amended): the text of the finish_reason delta is forwarded first and
\* the response of the flush, with one call per ready pending call, is the
\* last response.
C8_TextBeforeCalls ==
    [][FinishWithTextStep =>
         /\ Len(out') = Len(out) + 2
         /\ out'[Len(out) + 1] = Response(<<TextPart(Last(fed').content)>>, <<>>, Last(fed').finish)
         /\ ForwardedTexts(<<Last(out')>>) = <<>>
         /\ \A i \in 1..Len(accumulatedToolCalls) :
               (accumulatedToolCalls[i].name # ""
                /\ (Len(accumulatedToolCalls[i].arguments) = 0
                    \/ JsonParses(accumulatedToolCalls[i].arguments)))
               <=> EmittedIn(<<Last(out')>>, accumulatedToolCalls[i])
         /\ pc' = "done"]_vars

\* C8 witness: the stream ended on a finish_reason delta with text, its text
\* was forwarded and the function calls were emitted after it.
C8_Witness ==
    /\ EndedByFinish
    /\ Len(out) >= 2
    /\ out[Len(out) - 1] = Response(<<TextPart(<<"z">>)>>, <<>>, "stop")
    /\ CarriesCalls(Last(out))

\* ---- C9
\* C9 (as claimed): when the stream has ended by [DONE] or by the end of
\* data, every accumulated call has been emitted.
C9_NothingLostAtEnd ==
    EndedByEndOfStream =>
        \A i \in 1..Len(accumulatedToolCalls) : IsEmitted(accumulatedToolCalls[i])

\* ---- C10
\* C10 (as claimed): when a failed read has been propagated to the caller,
\* every accumulated call has been emitted before it.
C10_PartialCallsBeforeError ==
    pc = "failed" =>
        \A i \in 1..Len(accumulatedToolCalls) : IsEmitted(accumulatedToolCalls[i])

\* ---- C11
\* C11: every FunctionCall handed to the caller has args that is a mapping,
\* whatever the argument string was, a JSON text that is not an object
\* included.
C11_ArgsIsMapping == \A c \in EmittedCalls : c.args.kind = "object"

\* ---- C12
\* C12: when the streaming call has completed, every tracked call that has a
\* name and whose accumulated arguments do not parse has been handed to the
\* caller, under its name and with a mapping (empty or raw-string) as args.
C12_UnparsableStillEmitted ==
    pc = "done" =>
        \A i \in 1..Len(accumulatedToolCalls) :
            LET e == accumulatedToolCalls[i]
            IN  (e.name # "" /\ Len(e.arguments) > 0 /\ ~isValidJson(e.arguments)) =>
                    \E c \in EmittedCalls :
                        c.id = e.id /\ c.name = e.name /\ c.args.kind = "object"

\* ---- C13
\* C13: the name of a pending call is write-once: once a fragment has set it,
\* no step changes it, whatever name a later fragment of the slot carries.
C13_NameWriteOnce ==
    [][\A i \in 1..Len(accumulatedToolCalls) :
          accumulatedToolCalls[i].name # "" =>
              accumulatedToolCalls'[i].name = accumulatedToolCalls[i].name]_vars

\* ---- C14
\* The arguments text that the fragments tcs supply for the slot key, in
\* arrival order.
RECURSIVE Supplied(_, _, _)
Supplied(key, tcs, now) ==
    IF Len(tcs) = 0 THEN <<>>
    ELSE (IF toolCallId(Head(tcs), now) = key THEN Head(tcs).arguments ELSE <<>>)
         \o Supplied(key, Tail(tcs), now)

\* C14: the arguments buffer is append-only: a tool-call delta leaves every
\* slot's buffer equal to its previous value followed by the text the delta
\* supplied for that slot (a new slot starts from the empty buffer), no slot
\* disappears or moves, and no other step changes any buffer.
C14_AppendOnly ==
    [][IF ToolCallsStep
       THEN \E now \in Clock :
              /\ Len(accumulatedToolCalls') >= Len(accumulatedToolCalls)
              /\ \A i \in 1..Len(accumulatedToolCalls') :
                    LET key == accumulatedToolCalls'[i].key
                        before == IF i <= Len(accumulatedToolCalls)
                                  THEN accumulatedToolCalls[i].arguments ELSE <<>>
                    IN  /\ i <= Len(accumulatedToolCalls) => accumulatedToolCalls[i].key = key
                        /\ accumulatedToolCalls'[i].arguments
                             = before \o Supplied(key, Last(fed').tcs, now)
       ELSE [i \in 1..Len(accumulatedToolCalls') |-> accumulatedToolCalls'[i].arguments]
              = [i \in 1..Len(accumulatedToolCalls) |-> accumulatedToolCalls[i].arguments]]_vars

\* C14 witness: two slots are tracked, each with a buffer built from more
\* than one fragment.
C14_Witness ==
    /\ Len(accumulatedToolCalls) = 2
    /\ accumulatedToolCalls[1].key = "tool_0"
    /\ accumulatedToolCalls[1].arguments = <<"{", "}">>
    /\ accumulatedToolCalls[2].key = "c1"
    /\ accumulatedToolCalls[2].arguments = <<"{", "}">>
    /\ Len(fed) = 4

\* ---- C15
\* The lines of ls whose text is forwarded.
TextLines(ls) == { i \in 1..Len(ls) : ls[i].kind = "data" /\ Len(ls[i].tcs) = 0 /\ ~IsBlank(ls[i].content) }

\* C15: while no tool-call slot is tracked, whatever trigger has fired
\* (finish_reason, [DONE], end of data, read error), the responses handed to
\* the caller are exactly the forwarded texts: none carries function calls
\* and none is an empty tool response.
C15_NothingFlushedWithoutSlots ==
    Len(accumulatedToolCalls) = 0 =>
        /\ Len(out) = Cardinality(TextLines(fed))
        /\ \A i \in 1..Len(out) :
              /\ ~CarriesCalls(out[i])
              /\ Len(out[i].parts) = 1
              /\ ~out[i].parts[1].isCall
              /\ ~IsBlank(out[i].parts[1].text)

\* C15 witness (Scenario D): two text deltas and a terminating finish_reason
\* were processed, and only the two texts were forwarded.
C15_Witness ==
    /\ pc = "done"
    /\ fed = <<DataLine(<<>>, <<"t">>, ""), DataLine(<<>>, <<"u">>, ""), DataLine(<<>>, <<>>, "tool_calls")>>
    /\ Len(accumulatedToolCalls) = 0
    /\ Len(out) = 2

\* ---- C16
\* The index of the slot that a generated id names.
IndexOfId(id) ==
    CASE id = "tool_0" -> 0
      [] id = "tool_1" -> 1
      [] id = "tool_2" -> 2
      [] OTHER -> NoIndex

\* C16: the function calls of an emission are listed in ascending slot-index
\* order, whatever the order in which the slots were first referenced (stated
\* for the calls whose id is the slot's generated `tool_<index>`).
C16_AscendingIndexOrder ==
    \A i \in CallEmissions :
        \A j, k \in 1..Len(out[i].functionCalls) :
            LET a == IndexOfId(out[i].functionCalls[j].id)
                b == IndexOfId(out[i].functionCalls[k].id)
            IN  (j < k /\ a # NoIndex /\ b # NoIndex) => a < b

\* ---- C17
\* The fragments of the lines ls, in arrival order.
RECURSIVE FragmentsOf(_)
FragmentsOf(ls) ==
    IF Len(ls) = 0 THEN <<>>
    ELSE (IF Head(ls).kind = "data" THEN Head(ls).tcs ELSE <<>>) \o FragmentsOf(Tail(ls))

\* The arguments text of the fragments of fs that carry the index n.
RECURSIVE ArgsAtIndex(_, _)
ArgsAtIndex(n, fs) ==
    IF Len(fs) = 0 THEN <<>>
    ELSE (IF Head(fs).index = n THEN Head(fs).arguments ELSE <<>>) \o ArgsAtIndex(n, Tail(fs))

\* The pending calls tracked under the key.
EntriesAt(key) == { i \in 1..Len(accumulatedToolCalls) : accumulatedToolCalls[i].key = key }

\* C17: slot identity prefers the index. All fragments that carry one index
\* are accumulated into one pending call, whatever ids they carry, fragments
\* of different indexes go to different pending calls, and an id is a key only
\* when a fragment without index carried it.
C17_IndexPreferred ==
    LET fs == FragmentsOf(fed)
        indexed(n) == \E j \in 1..Len(fs) : fs[j].index = n
    IN  /\ \A n \in {0, 1} :
              IF indexed(n)
              THEN /\ Cardinality(EntriesAt(ToolKey(n))) = 1
                   /\ \A i \in EntriesAt(ToolKey(n)) :
                         accumulatedToolCalls[i].arguments = ArgsAtIndex(n, fs)
              ELSE EntriesAt(ToolKey(n)) = {}
        /\ \A id \in {"c1", "c2"} :
              EntriesAt(id) # {} => \E j \in 1..Len(fs) : fs[j].index = NoIndex /\ fs[j].id = id

\* C17 witness: three fragments of index 0, the first with id c1, the second
\* without id, the third with id c2, are one pending call.
C17_Witness ==
    /\ fed = <<DataLine(<<Frag(0, "c1", "get_weather", <<>>)>>, <<>>, ""),
               DataLine(<<Frag(0, "", "", <<"{">>)>>, <<>>, ""),
               DataLine(<<Frag(0, "c2", "g", <<"}">>)>>, <<>>, "")>>
    /\ Len(accumulatedToolCalls) = 1
    /\ accumulatedToolCalls[1].arguments = <<"{", "}">>

\* ---- C18
\* A step that hands function calls to the caller.
EmissionStep == Len(out') > Len(out) /\ CarriesCalls(Last(out'))

\* C18: if any fragment of a slot carried an id, the call emitted for the slot
\* has a provided id: no call is emitted under the generated id of slot n when
\* a fragment of index n received before the emission carried an id.
C18_ProvidedIdEmitted ==
    [][EmissionStep =>
          \A j \in 1..Len(Last(out').functionCalls) :
              LET n == IndexOfId(Last(out').functionCalls[j].id)
                  fs == FragmentsOf(fed')
              IN  n # NoIndex =>
                      \A k \in 1..Len(fs) : fs[k].index = n => fs[k].id = ""]_vars

\* ---- C19
\* `<name>-slot-<index>`
SynthId(name, n) ==
    CASE name = "get_weather" /\ n = 0 -> "get_weather-slot-0"
      [] name = "get_weather" /\ n = 1 -> "get_weather-slot-1"
      [] name = "g" /\ n = 0 -> "g-slot-0"
      [] name = "g" /\ n = 1 -> "g-slot-1"
      [] OTHER -> "-slot-"

\* The fragment that created the slot of index n.
FirstAtIndex(n, fs) == fs[CHOOSE j \in 1..Len(fs) : fs[j].index = n /\ \A k \in 1..(j - 1) : fs[k].index # n]

C20_IdAndNameNonEmpty == \A c \in EmittedCalls : c.id # "" /\ c.name # ""

\* C20 witness: the provider's response held a tool call without id and
\* without name, and the translator emitted a call for it.
C20_Witness ==
    /\ pc = "done"
    /\ Len(fed) = 1
    /\ fed[1].kind = "response"
    /\ fed[1].tcs = <<Frag(NoIndex, "", "", <<"{", "a", "}">>)>>
    /\ Len(out) = 1
    /\ Len(out[1].functionCalls) = 1
    /\ out[1].functionCalls[1].name = "unknown_function"
    /\ out[1].functionCalls[1].id = GeneratedId("unknown_function", 101)

\* ------------------------------------------------- the argument repair
\* The longest arguments string that the repair specification translates.
MaxRawLen == 4

RawChars == {"{", "}", "[", "]", "a", "k", ",", "1", " "}

RawTexts == UNION { [1..n -> RawChars] : n \in 0..MaxRawLen }

\* A response with one tool call, id x and name get_weather, has arrived.
InitRepair ==
    /\ pc = "read"
    /\ lines = <<>>
    /\ accumulatedToolCalls = <<>>
    /\ hasOutputToolCalls = FALSE
    /\ out = <<>>
    /\ released = 0
    /\ fed \in { <<WireResponse(<<Frag(NoIndex, "x", "get_weather", raw)>>, <<>>, "tool_calls")>> : raw \in RawTexts }
    /\ taken = 0
    /\ parked = Fresh
    /\ sent = <<>>
    /\ buffer = <<>>
    /\ body = <<>>
    /\ position = 0

\* return fromQwenGenerateResponse(response)
TranslateResponse ==
    /\ pc = "read"
    /\ Len(fed) = 1
    /\ fed[1].kind = "response"
    /\ \E now \in Clock : out' = <<fromQwenGenerateResponse(fed[1], now)>>
    /\ pc' = "done"
    /\ UNCHANGED <<lines, accumulatedToolCalls, hasOutputToolCalls, released, fed>>
    /\ UNCHANGED <<taken, parked, sent, buffer, body, position>>

SpecRepair == InitRepair /\ [][TranslateResponse]_vars

\* ---- C21
\* The arguments string that was translated.
RawOf == fed[1].tcs[1].arguments

\* The closing character that the repair appends to the text t.
ClosingOf(t) == IF t[1] = "{" THEN <<"}">> ELSE <<"]">>

\* C21: for an arguments string that is a JSON object or array missing only
\* its closing brace or bracket, the repair returns the parse of the string
\* with that character appended.
C21_MissingCloseRepaired ==
    (pc = "done" /\ Len(RawOf) > 0 /\ RawOf[1] \in {"{", "["}
     /\ JsonParses(RawOf \o ClosingOf(RawOf)))
        => out[1].functionCalls[1].args = JSONparse(RawOf \o ClosingOf(RawOf))

\* ---- C22
\* C22: a data line whose payload is not valid JSON is skipped: the step that
\* takes it yields nothing, raises nothing, leaves the pending calls and the
\* flag as they were, and goes on with the lines that follow it.
C22_MalformedSkipped ==
    [][(fed' # fed /\ Last(fed').kind = "malformed") =>
          /\ out' = out
          /\ accumulatedToolCalls' = accumulatedToolCalls
          /\ hasOutputToolCalls' = hasOutputToolCalls
          /\ released' = released
          /\ lines' = Tail(lines)
          /\ pc' = IF Len(lines') > 0 THEN "lines" ELSE "read"]_vars

\* C22 witness: a malformed line arrived between the fragments of a call, and
\* the call was emitted with the arguments of the fragments around it.
C22_Witness ==
    /\ fed = <<DataLine(<<Frag(0, "c1", "get_weather", <<>>)>>, <<>>, ""),
               DataLine(<<Frag(0, "", "", <<"{", "a">>)>>, <<>>, ""),
               MalformedLine,
               DataLine(<<Frag(0, "", "", <<"}">>)>>, <<>>, "")>>
    /\ Len(out) = 1
    /\ out[1].functionCalls = <<FunctionCall("c1", "get_weather", JSONparse(<<"{", "a", "}">>))>>

\* ------------------------------------------------ two calls in flight
\* Lines of each of the two streaming calls in the two-call specification.
MaxPairEvents == 2

PairLines ==
    { DataLine(<<Frag(0, "", "get_weather", <<>>)>>, <<>>, ""),
      DataLine(<<Frag(0, "", "g", <<"{", "}">>)>>, <<>>, ""),
      DataLine(<<>>, <<"t">>, ""),
      DataLine(<<>>, <<>>, "tool_calls") }

\* The locals of the running call.
Running ==
    [pc |-> pc, lines |-> lines, accumulatedToolCalls |-> accumulatedToolCalls,
     hasOutputToolCalls |-> hasOutputToolCalls, out |-> out, released |-> released, fed |-> fed]

\* Switch with the Map and the flag held by the generator object, shared by its calls.
SwitchSharedMap ==
    /\ pc' = parked.pc
    /\ lines' = parked.lines
    /\ out' = parked.out
    /\ released' = parked.released
    /\ fed' = parked.fed
    /\ parked' = Running
    /\ UNCHANGED <<accumulatedToolCalls, hasOutputToolCalls, taken, sent, buffer, body, position>>

\* The event loop passes control to the other call (at an await or a yield of
\* the running one); each call resumes with the locals of its own invocation
\* of processStreamResponse.
Switch ==
    /\ pc' = parked.pc
    /\ lines' = parked.lines
    /\ accumulatedToolCalls' = parked.accumulatedToolCalls
    /\ hasOutputToolCalls' = parked.hasOutputToolCalls
    /\ out' = parked.out
    /\ released' = parked.released
    /\ fed' = parked.fed
    /\ parked' = Running
    /\ UNCHANGED <<taken, sent, buffer, body, position>>

NextPair ==
    \/ ReadChunk(PairLines, MaxPairEvents)
    \/ ReadDone
    \/ ReadError
    \/ ToolCallsDelta
    \/ FinishDelta
    \/ TextDelta
    \/ Switch

SpecPair == Init /\ [][NextPair]_vars

\* ---- C23
\* What a call that runs alone holds after it has processed one more line.
AloneLine(st, line, now) ==
    LET flushed == IF Len(st.acc) > 0 /\ ~st.flag
                   THEN [st EXCEPT !.out = Append(st.out, createToolCallResponse(st.acc)), !.flag = TRUE]
                   ELSE st
    IN  IF line.kind = "done" THEN flushed
        ELSE IF line.kind # "data" THEN st
        ELSE IF Len(line.tcs) > 0
        THEN LET acc == Accumulate(st.acc, line.tcs, now)
             IN  IF allToolCallsComplete(acc) /\ ~st.flag
                 THEN [acc |-> acc, flag |-> TRUE, out |-> Append(st.out, createToolCallResponse(acc))]
                 ELSE [st EXCEPT !.acc = acc]
        ELSE LET texted == IF ~IsBlank(line.content)
                           THEN [st EXCEPT !.out = Append(st.out, fromQwenStreamResponse(line))]
                           ELSE st
             IN  IF line.finish = "" THEN texted
                 ELSE IF Len(st.acc) > 0 /\ ~st.flag
                 THEN [texted EXCEPT !.out = Append(texted.out, createToolCallResponse(st.acc)), !.flag = TRUE]
                 ELSE texted

\* What a call that runs alone can hold after the lines ls.
RECURSIVE AloneAfter(_)
AloneAfter(ls) ==
    IF Len(ls) = 0 THEN { [acc |-> <<>>, flag |-> FALSE, out |-> <<>>] }
    ELSE { AloneLine(st, ls[Len(ls)], now) :
             st \in AloneAfter(SubSeq(ls, 1, Len(ls) - 1)), now \in Clock }

\* The line ends the stream.
IsTerminator(line) ==
    line.kind = "done" \/ (line.kind = "data" /\ Len(line.tcs) = 0 /\ line.finish # "")

\* The responses that a call running alone can have emitted when it has
\* processed the lines ls and stands at the control point at.
AloneOut(ls, at) ==
    { IF at \in {"done", "failed"} /\ (Len(ls) = 0 \/ ~IsTerminator(ls[Len(ls)]))
         /\ Len(st.acc) > 0 /\ ~st.flag
      THEN Append(st.out, createToolCallResponse(st.acc))
      ELSE st.out : st \in AloneAfter(ls) }

\* C23: two streaming calls of one generator object whose steps interleave
\* do not influence each other: each has emitted what it could have emitted
\* running alone on its own lines.
C23_CallsIndependent ==
    /\ out \in AloneOut(fed, pc)
    /\ parked.out \in AloneOut(parked.fed, parked.pc)

\* C23 witness: one call tracked get_weather and was suspended, the other
\* emitted g and finished, then the first one ended and emitted get_weather
\* alone.
C23_Witness ==
    /\ pc = "done"
    /\ parked.pc = "done"
    /\ Len(out) = 1
    /\ Len(out[1].functionCalls) = 1
    /\ out[1].functionCalls[1].name = "get_weather"
    /\ Len(parked.out) = 1
    /\ Len(parked.out[1].functionCalls) = 1
    /\ parked.out[1].functionCalls[1].name = "g"
    /\ Len(parked.fed) = 2

\* ------------------------------------------------ the caller of the generator
\* Lines of the streaming call in the specification with a caller.
MaxFlowEvents == 3

\* Resumed without the suspension at a yield.
ResumedAlways == TRUE

\* The generator is suspended at every yield until the caller, having taken
\* the response, asks for the next one.
Resumed == taken = Len(out)

\* The caller takes a response that was yielded and asks for the next one.
Consume ==
    /\ taken < Len(out)
    /\ taken' = taken + 1
    /\ UNCHANGED <<pc, lines, accumulatedToolCalls, hasOutputToolCalls, out, released, fed, parked, sent,
                   buffer, body, position>>

NextFlow ==
    \/ Resumed /\ ReadChunk(PairLines, MaxFlowEvents)
    \/ Resumed /\ ReadDone
    \/ Resumed /\ ReadError
    \/ Resumed /\ ToolCallsDelta
    \/ Resumed /\ FinishDelta
    \/ Resumed /\ TextDelta
    \/ Consume

SpecFlow == Init /\ [][NextFlow]_vars

\* ---- C24
\* A step in which reader.read() is called and settles.
ReadStep == pc = "read" /\ pc' # "read"

\* C24: a read is issued only when every line of the chunk read before has
\* been processed and every response yielded so far has been taken by the
\* caller; the generator has one control point, so one read at most is
\* outstanding.
C24_ReadAfterProcessedAndTaken ==
    [][ReadStep => (lines = <<>> /\ taken = Len(out))]_vars

\* C24 witness: three text lines were read, forwarded and taken, and the
\* generator is at its next read.
C24_Witness ==
    /\ pc = "read"
    /\ Len(fed) = 3
    /\ Len(out) = 3
    /\ taken = 3

\* ---- C25
\* The wire response that generateContent translated.
Translated == pc = "done" /\ Len(fed) = 1 /\ fed[1].kind = "response" /\ Len(out) = 1

\* C25: the parts of a translated response are one text part first when the
\* message content is non-empty and none when it is empty, then one call part
\* per wire tool call in wire order, each with the provided id and name; the
\* finish reason is copied, STOP when absent.
C25_PartsOfTranslation ==
    Translated =>
        LET wire == fed[1]
            parts == out[1].parts
            t == IF Len(wire.content) > 0 THEN 1 ELSE 0
        IN  /\ Len(parts) = t + Len(wire.tcs)
            /\ t = 1 => (~parts[1].isCall /\ parts[1].text = wire.content)
            /\ \A j \in 1..Len(wire.tcs) :
                  /\ parts[t + j].isCall
                  /\ wire.tcs[j].id # "" => parts[t + j].functionCall.id = wire.tcs[j].id
                  /\ wire.tcs[j].name # "" => parts[t + j].functionCall.name = wire.tcs[j].name
            /\ out[1].finishReason = (IF wire.finish # "" THEN wire.finish ELSE "STOP")

\* C25 witness: a response with content, two tool calls with id and name and
\* no finish reason was translated.
C25_Witness ==
    /\ Translated
    /\ fed[1] = WireResponse(<<Frag(NoIndex, "x", "get_weather", <<"{", "a", "}">>),
                               Frag(NoIndex, "x", "get_weather", <<>>)>>, <<"t">>, "")
    /\ Len(out[1].parts) = 3
    /\ out[1].finishReason = "STOP"

\* ---- C26
\* A step of the streaming path that hands function calls to the caller.
StreamEmissionStep == EmissionStep /\ Last(fed').kind # "response"

\* A step of generateContent that returned a response.
TranslateStep == fed = <<>> /\ Len(fed') = 1 /\ fed'[1].kind = "response" /\ pc' = "done"

\* C26: a tool call whose arguments string is empty or absent becomes a
\* FunctionCall with its id and name and the empty mapping as args, in the
\* non-streaming translator and at a streaming flush alike.
C26_EmptyArgumentsEmptyMapping ==
    [][/\ TranslateStep =>
            \A j \in 1..Len(fed'[1].tcs) :
                LET toolCall == fed'[1].tcs[j]
                    call == out'[1].functionCalls[j]
                IN  Len(toolCall.arguments) = 0 =>
                        /\ call.args = EmptyObject
                        /\ toolCall.id # "" => call.id = toolCall.id
                        /\ toolCall.name # "" => call.name = toolCall.name
       /\ StreamEmissionStep =>
            \A i \in 1..Len(accumulatedToolCalls') :
                LET e == accumulatedToolCalls'[i]
                IN  (e.name # "" /\ Len(e.arguments) = 0) =>
                        \E j \in 1..Len(Last(out').functionCalls) :
                            Last(out').functionCalls[j] = FunctionCall(e.id, e.name, EmptyObject)]_vars

\* C26 witness (Scenario B): the tool call {id x, name get_weather, arguments
\* ""} of a non-streaming response was translated.
C26_Witness ==
    /\ Translated
    /\ fed[1].tcs = <<Frag(NoIndex, "x", "get_weather", <<>>)>>
    /\ out[1].functionCalls = <<FunctionCall("x", "get_weather", EmptyObject)>>

\* ---- C27
\* C27: a tool call whose arguments string is not valid JSON is translated to
\* exactly one FunctionCall with its id and name and the empty object as args.
C27_InvalidJsonEmptyObject ==
    Translated =>
        /\ Len(out[1].functionCalls) = Len(fed[1].tcs)
        /\ \A j \in 1..Len(fed[1].tcs) :
              LET toolCall == fed[1].tcs[j]
              IN  (Len(toolCall.arguments) > 0 /\ ~JsonParses(toolCall.arguments)) =>
                      /\ out[1].functionCalls[j].args = EmptyObject
                      /\ toolCall.id # "" => out[1].functionCalls[j].id = toolCall.id
                      /\ toolCall.name # "" => out[1].functionCalls[j].name = toolCall.name

\* ------------------------------------------- both entry points, all lines
NextGenerator ==
    \/ GenerateContent
    \/ Next

SpecGenerator == Init /\ [][NextGenerator]_vars

\* ---- C28
\* The function calls of the call parts of a response, in order.
RECURSIVE CallsOfParts(_)
CallsOfParts(parts) ==
    IF Len(parts) = 0 THEN <<>>
    ELSE (IF Head(parts).isCall THEN <<Head(parts).functionCall>> ELSE <<>>)
         \o CallsOfParts(Tail(parts))

\* C28: the functionCalls list of every response handed to the caller (of a
\* non-streaming translation, a forwarded text, a streaming flush) is present
\* exactly when the response has call parts and lists their calls in the same
\* order; a response without calls has at most its text part.
C28_FunctionCallsMirrorParts ==
    \A i \in 1..Len(out) :
        /\ out[i].functionCalls = CallsOfParts(out[i].parts)
        /\ Len(out[i].functionCalls) = 0 =>
              (Len(out[i].parts) <= 1 /\ \A j \in 1..Len(out[i].parts) : ~out[i].parts[j].isCall)

\* C28 witness: a text was forwarded without a functionCalls list, and the
\* flush after it carried two calls in parts and in the list.
C28_Witness ==
    /\ Len(out) = 2
    /\ out[1].functionCalls = <<>>
    /\ Len(out[1].parts) = 1
    /\ Len(out[2].functionCalls) = 2
    /\ Len(out[2].parts) = 2

\* ---- C29
\* C29: the non-streaming translator never throws: every wire response, one
\* with no content, no tool calls, a tool call without a name or a tool call
\* without its function object included, is answered with a response.
C29_TranslatorNeverThrows ==
    (Len(fed) = 1 /\ fed[1].kind = "response") => (pc = "done" /\ Len(out) = 1)

\* ------------------------------------------------- the request translation
\* Contents of a request that the model translates.
MaxTurns == 3

\* A Content of the caller: its role and the texts of its text parts.
Content(role, parts) == [role |-> role, parts |-> parts]

QwenMessage(role, content) == [role |-> role, content |-> content]

\* allParts.join('\n')
RECURSIVE join(_)
join(allParts) ==
    IF Len(allParts) = 0 THEN <<>>
    ELSE IF Len(allParts) = 1 THEN allParts[1]
    ELSE allParts[1] \o <<"\n">> \o join(Tail(allParts))

\* convertContentToQwenMessages(contents): model becomes assistant, the parts
\* that are not empty are joined, a content left without parts gives no message.
RECURSIVE convertContentToQwenMessages(_)
convertContentToQwenMessages(contents) ==
    IF Len(contents) = 0 THEN <<>>
    ELSE LET content == Head(contents)
             role == IF content.role = "model" THEN "assistant" ELSE content.role
             allParts == SelectSeq(content.parts, LAMBDA text : Len(text) > 0)
         IN  (IF Len(allParts) > 0 THEN <<QwenMessage(role, join(allParts))>> ELSE <<>>)
             \o convertContentToQwenMessages(Tail(contents))

\* config.responseSchema when the caller gave none.
NoSchema == [kind |-> "undefined", members |-> {}, digits |-> 0, raw |-> <<>>, nested |-> <<>>]

\* JSON.stringify(value, null, 2) of an object of members a and b: one line
\* per member, indented, between the braces; {} for the empty object.
JSONstringify(value) ==
    IF value.members = {} THEN <<"{", "}">>
    ELSE <<"{", "\n">>
         \o (IF "a" \in value.members THEN <<"  ", "a">> ELSE <<>>)
         \o (IF {"a", "b"} \subseteq value.members THEN <<",", "\n">> ELSE <<>>)
         \o (IF "b" \in value.members THEN <<"  ", "b">> ELSE <<>>)
         \o <<"\n", "}">>

\* The two pieces of jsonInstruction.
PleaseRespondInJson == <<"\n\nPlease respond in JSON format.">>
MustConformToSchema == <<"\n\nYour JSON response must conform to this schema:\n">>

jsonInstruction(responseSchema) ==
    PleaseRespondInJson
    \o (IF responseSchema # NoSchema THEN MustConformToSchema \o JSONstringify(responseSchema) ELSE <<>>)

\* request.response_format: unset, or {type: 'json_object'}.
JsonObjectFormat == <<[type |-> "json_object"]>>

\* params of generateContent: contents and config.responseMimeType / responseSchema.
GenerateContentParameters(contents, responseMimeType, responseSchema) ==
    [kind |-> "params", contents |-> contents, responseMimeType |-> responseMimeType,
     responseSchema |-> responseSchema]

needsJsonResponse(params) ==
    params.responseMimeType = "application/json" \/ params.responseSchema # NoSchema

\* toQwenGenerateRequest(params): messages and response_format of the request.
\* The instruction is appended to the last message when its role is user.
toQwenGenerateRequest(params) ==
    LET messages == convertContentToQwenMessages(params.contents)
        n == Len(messages)
    IN  [messages |-> IF needsJsonResponse(params) /\ n > 0 /\ messages[n].role = "user"
                      THEN [messages EXCEPT ![n].content = @ \o jsonInstruction(params.responseSchema)]
                      ELSE messages,
         response_format |-> IF needsJsonResponse(params) THEN JsonObjectFormat ELSE <<>>]

Turns ==
    { Content(role, parts) : role \in {"user", "model"},
                             parts \in { <<>>, << <<>> >>, << <<"q">> >>, << <<"q">>, <<"r">> >> } }

Schemas ==
    { NoSchema, EmptyObject,
      [kind |-> "object", members |-> {"a", "b"}, digits |-> 0, raw |-> <<>>, nested |-> <<>>] }

Requests ==
    { GenerateContentParameters(contents, mime, schema) :
        contents \in UNION { [1..n -> Turns] : n \in 0..MaxTurns },
        mime \in {"", "application/json", "text/plain"},
        schema \in Schemas }

\* const qwenRequest = toQwenGenerateRequest(request, false), the first
\* statement of generateContent and of generateContentStream.
ToQwenGenerateRequest ==
    /\ pc = "read"
    /\ fed = <<>>
    /\ sent = <<>>
    /\ \E params \in Requests :
          /\ fed' = <<params>>
          /\ sent' = <<toQwenGenerateRequest(params)>>
    /\ UNCHANGED <<pc, lines, accumulatedToolCalls, hasOutputToolCalls, out, released, taken, parked,
                   buffer, body, position>>

SpecRequest == Init /\ [][ToQwenGenerateRequest]_vars

\* The position in messages of the last message of role user, 0 when none.
LastUser(messages) ==
    IF \E i \in 1..Len(messages) : messages[i].role = "user"
    THEN CHOOSE i \in 1..Len(messages) :
            /\ messages[i].role = "user"
            /\ \A j \in (i + 1)..Len(messages) : messages[j].role # "user"
    ELSE 0

\* ---- C30
\* C30: when JSON output is requested (JSON MIME type or a response schema)
\* the request has response_format {type: json_object} and the content of the
\* last user message is its text followed by the respond-in-JSON instruction,
\* followed by the schema text when a schema was given, every other message
\* being untouched; when JSON output is not requested the messages are the
\* converted contents and response_format is absent.
C30_JsonModeRequest ==
    (Len(sent) = 1 /\ Len(fed) = 1 /\ fed[1].kind = "params") =>
        LET params == fed[1]
            plain == convertContentToQwenMessages(params.contents)
            k == LastUser(plain)
            json == params.responseMimeType = "application/json" \/ params.responseSchema # NoSchema
            instruction == PleaseRespondInJson
                           \o (IF params.responseSchema # NoSchema
                               THEN MustConformToSchema \o JSONstringify(params.responseSchema)
                               ELSE <<>>)
        IN  IF json
            THEN /\ sent[1].response_format = JsonObjectFormat
                 /\ Len(sent[1].messages) = Len(plain)
                 /\ \A i \in 1..Len(plain) :
                       sent[1].messages[i] =
                           IF i = k THEN QwenMessage("user", plain[i].content \o instruction)
                           ELSE plain[i]
            ELSE /\ sent[1].response_format = <<>>
                 /\ sent[1].messages = plain

\* ------------------------------------------------- the wire request body
\* Contents of a request whose body is built.
MaxWireTurns == 1

\* config.thinkingConfig of the caller: none, or includeThoughts true / false.
ThinkingConfigs == {"none", "includeThoughts", "noThoughts"}

\* The caller's parameters with the config object that may be missing and
\* the thinkingConfig inside it.
WireParameters ==
    { p \in [kind : {"params"},
             contents : UNION { [1..n -> Turns] : n \in 0..MaxWireTurns },
             responseMimeType : {"", "application/json"},
             responseSchema : {NoSchema, EmptyObject},
             config : BOOLEAN,
             thinkingConfig : ThinkingConfigs] :
        ~p.config => (p.thinkingConfig = "none" /\ p.responseMimeType = ""
                      /\ p.responseSchema = NoSchema) }

\* The body handed to makeApiCall / makeStreamApiCall: the fields of the
\* translated request, stream, and enable_thinking: false written out in
\* both bodies. The field is a sequence: <<>> when the body has no such field.
RequestBody(qwenRequest, stream) ==
    [messages |-> qwenRequest.messages, response_format |-> qwenRequest.response_format,
     stream |-> stream, enable_thinking |-> <<FALSE>>]

\* generateContent up to makeApiCall.
MakeApiCall ==
    /\ pc = "read"
    /\ fed = <<>>
    /\ sent = <<>>
    /\ \E params \in WireParameters :
          /\ fed' = <<params>>
          /\ sent' = <<RequestBody(toQwenGenerateRequest(params), FALSE)>>
    /\ UNCHANGED <<pc, lines, accumulatedToolCalls, hasOutputToolCalls, out, released, taken, parked,
                   buffer, body, position>>

\* generateContentStream up to makeStreamApiCall.
MakeStreamApiCall ==
    /\ pc = "read"
    /\ fed = <<>>
    /\ sent = <<>>
    /\ \E params \in WireParameters :
          /\ fed' = <<params>>
          /\ sent' = <<RequestBody(toQwenGenerateRequest(params), TRUE)>>
    /\ UNCHANGED <<pc, lines, accumulatedToolCalls, hasOutputToolCalls, out, released, taken, parked,
                   buffer, body, position>>

NextWire ==
    \/ MakeApiCall
    \/ MakeStreamApiCall

SpecWire == Init /\ [][NextWire]_vars

\* ---- C31
\* C31: a non-streaming wire request never has the enable_thinking field, and
\* a streaming wire request has it only when the caller supplied a thinking
\* setting: without one the streaming request has no such field.
C31_ThinkingToggle ==
    (Len(sent) = 1 /\ Len(fed) = 1 /\ fed[1].kind = "params") =>
        /\ ~sent[1].stream => sent[1].enable_thinking = <<>>
        /\ (sent[1].stream /\ fed[1].thinkingConfig = "none") => sent[1].enable_thinking = <<>>

\* The line being processed is a delta with neither tool calls nor a finish
\* reason.
TextOnlyStep ==
    /\ pc = "lines"
    /\ fed' = Append(fed, Head(lines))
    /\ Head(lines).kind = "data"
    /\ Len(Head(lines).tcs) = 0
    /\ Head(lines).finish = ""

\* ---- C32
\* C32: processing a text-only delta leaves the tracked slots, their names,
\* ids and buffers and the emitted flag as they were, and what it forwards
\* depends on its content alone: the same one text response before any
\* tool-call delta, while calls are pending and after the emission.
C32_TextDeltaFrame ==
    [][TextOnlyStep =>
          /\ accumulatedToolCalls' = accumulatedToolCalls
          /\ hasOutputToolCalls' = hasOutputToolCalls
          /\ out' = IF \E i \in 1..Len(Head(lines).content) : Head(lines).content[i] # " "
                    THEN Append(out, Response(<<TextPart(Head(lines).content)>>, <<>>, ""))
                    ELSE out]_vars

\* C32 witness: a text delta while a call is pending and another one after
\* the emission, both forwarded, the calls in between.
C32_Witness ==
    /\ Len(fed) = 4
    /\ fed[1] = DataLine(<<Frag(0, "c1", "get_weather", <<>>)>>, <<>>, "")
    /\ fed[2] = DataLine(<<>>, <<"t">>, "")
    /\ fed[4] = DataLine(<<>>, <<"u">>, "")
    /\ Len(out) = 3
    /\ out[1] = Response(<<TextPart(<<"t">>)>>, <<>>, "")
    /\ Len(out[2].functionCalls) = 1
    /\ out[3] = Response(<<TextPart(<<"u">>)>>, <<>>, "")
    /\ hasOutputToolCalls

C34_NoPrematureEmission ==
    [][ToolCallsStep =>
          LET whole == \A i \in 1..Len(accumulatedToolCalls') :
                           /\ accumulatedToolCalls'[i].name # ""
                           /\ Len(accumulatedToolCalls'[i].arguments) > 0
                           /\ JsonParses(accumulatedToolCalls'[i].arguments)
          IN  /\ ~whole => out' = out
              /\ out' # out =>
                    /\ whole
                    /\ Len(out') = Len(out) + 1
                    /\ Len(Last(out').functionCalls) = Len(accumulatedToolCalls')]_vars

\* C34 witness: slot 0 is whole and slot 1 holds only an opening brace; two
\* tool-call deltas were processed and nothing has been emitted.
C34_Witness ==
    /\ pc \in {"read", "lines"}
    /\ Len(fed) = 2
    /\ Len(fed[1].tcs) > 0
    /\ Len(fed[2].tcs) > 0
    /\ Len(accumulatedToolCalls) = 2
    /\ \E i \in 1..2 : accumulatedToolCalls[i].name = "get_weather"
                       /\ accumulatedToolCalls[i].arguments = <<"{", "}">>
    /\ \E i \in 1..2 : accumulatedToolCalls[i].arguments = <<"{">>
    /\ out = <<>>
    /\ ~hasOutputToolCalls

\* ---- C35
\* C35: a finish_reason delta without tool-call fragments and the [DONE]
\* sentinel end the call: the step that processes one completes the
\* generator, and from then on no line is processed, nothing is forwarded
\* and no read is issued, whatever follows in the stream.
C35_TerminalSignals ==
    [][/\ (fed' # fed /\ IsTerminator(Last(fed'))) => pc' = "done"
       /\ (\E i \in 1..Len(fed) : IsTerminator(fed[i])) =>
             (pc = "done" /\ pc' = "done" /\ fed' = fed /\ out' = out /\ lines' = lines)]_vars

\* C35 witness: a finish_reason delta was processed and ended the call
\* while a text delta of the same read was still waiting behind it.
C35_Witness ==
    /\ pc = "done"
    /\ Len(fed) = 2
    /\ fed[2] = DataLine(<<>>, <<>>, "tool_calls")
    /\ lines = <<DataLine(<<>>, <<"t">>, "")>>
    /\ released = 1

\* ------------------------------------------- deltas that mix their fields
\* Events of a stream whose tool-call deltas also carry text or a
\* finish_reason, and which has no finish_reason delta of its own.
MaxMixedEvents == 4

MixedLines ==
    { DataLine(<<Frag(0, "c1", "get_weather", <<>>)>>, <<"t">>, "tool_calls"),
      DataLine(<<Frag(0, "", "", <<"{", "}">>)>>, <<>>, "tool_calls"),
      DataLine(<<Frag(1, "", "g", <<"{", "a", "}">>)>>, <<"t">>, ""),
      DataLine(<<>>, <<"u">>, ""),
      DoneLine }

NextMixed ==
    \/ ReadChunk(MixedLines, MaxMixedEvents)
    \/ ReadDone
    \/ ReadError
    \/ DoneSentinel
    \/ ToolCallsDelta
    \/ TextDelta

SpecMixed == Init /\ [][NextMixed]_vars

\* ---- C36
\* Every tracked call has, after the step, a name and a non-empty buffer that parses.
WholeAfter ==
    \A i \in 1..Len(accumulatedToolCalls') :
        /\ accumulatedToolCalls'[i].name # ""
        /\ Len(accumulatedToolCalls'[i].arguments) > 0
        /\ JsonParses(accumulatedToolCalls'[i].arguments)

\* A tool-call delta forwards no text, does not end the call, and emits
\* nothing but the early completion.
HandledAsToolCallDelta ==
    ToolCallsStep =>
        /\ pc' \in {"lines", "read"}
        /\ released' = released
        /\ \/ out' = out
           \/ /\ WholeAfter
              /\ ~hasOutputToolCalls
              /\ Len(out') = Len(out) + 1
              /\ Len(Last(out').functionCalls) = Len(accumulatedToolCalls')

\* C36 (as stated): a delta with a tool-call fragment is handled as a
\* tool-call delta only: its text is not forwarded, its finish_reason neither
\* flushes the tracked calls nor ends the call; the calls of such a stream
\* are emitted only by early completion, by [DONE] or by the end of the stream.
C36_ThreeTriggers ==
    [][/\ HandledAsToolCallDelta
       /\ EmissionStep =>
             \/ ToolCallsStep /\ WholeAfter
             \/ fed' # fed /\ Last(fed').kind = "done"
             \/ pc = "read" /\ pc' = "done"]_vars

\* C36 (amended): as stated, with the fourth trigger: the calls of such a
\* stream are emitted by early completion, by [DONE], by the end of the
\* stream or, those tracked so far, by a transport error.
C36_ToolCallDeltaOnly ==
    [][/\ HandledAsToolCallDelta
       /\ EmissionStep =>
             \/ ToolCallsStep /\ WholeAfter
             \/ fed' # fed /\ Last(fed').kind = "done"
             \/ pc = "read" /\ pc' = "done"
             \/ pc = "read" /\ pc' = "failed"]_vars

\* C36 witness: the delta that named the call carried text and the
\* finish_reason; nothing was forwarded or flushed by it, the call went on
\* and [DONE] emitted the call.
C36_Witness ==
    /\ fed = <<DataLine(<<Frag(0, "c1", "get_weather", <<>>)>>, <<"t">>, "tool_calls"), DoneLine>>
    /\ pc = "done"
    /\ Len(out) = 1
    /\ out[1].functionCalls = <<FunctionCall("c1", "get_weather", EmptyObject)>>

\* ------------------------------------------------ text with white space
\* Events of a stream whose text deltas carry white space.
MaxTextEvents == 3

\* delta.content: absent, white space only, text, text with white space around it.
PaddedContents == { <<>>, <<" ">>, <<" ", " ">>, <<"t">>, <<" ", "t", " ">> }

PaddedLines ==
    { DataLine(<<>>, content, "") : content \in PaddedContents }
    \cup { DataLine(<<>>, <<" ">>, "stop"),
           DataLine(<<>>, <<" ", "t", " ">>, "stop"),
           DataLine(<<Frag(0, "c1", "get_weather", <<>>)>>, <<>>, "") }

NextText ==
    \/ ReadChunk(PaddedLines, MaxTextEvents)
    \/ ReadDone
    \/ ToolCallsDelta
    \/ FinishDelta
    \/ TextDelta

SpecText == Init /\ [][NextText]_vars

\* A delta without tool-call fragments is processed.
PlainDeltaStep ==
    /\ fed' # fed
    /\ Last(fed').kind = "data"
    /\ Len(Last(fed').tcs) = 0

\* ---- C37
\* C37: a delta without tool-call fragments is forwarded as one text response
\* exactly when its content has a character that is not white space, and then
\* with the content as received, white space around it included; a delta
\* whose content is empty or white space only forwards nothing, so the texts
\* forwarded are the texts received less the white-space-only ones.
C37_WhitespaceForwarding ==
    [][PlainDeltaStep =>
          LET content == Last(fed').content
              visible == \E i \in 1..Len(content) : content[i] # " "
              added == SubSeq(out', Len(out) + 1, Len(out'))
          IN  /\ SubSeq(out', 1, Len(out)) = out
              /\ IF visible
                 THEN /\ Len(added) >= 1
                      /\ added[1].parts = <<TextPart(content)>>
                      /\ added[1].functionCalls = <<>>
                      /\ ForwardedTexts(added) = <<content>>
                 ELSE ForwardedTexts(added) = <<>>
              /\ Last(fed').finish = "" => Len(added) = (IF visible THEN 1 ELSE 0)]_vars

\* C37 witness: a white-space-only delta forwarded nothing and the delta
\* after it was forwarded with the white space around its text.
C37_Witness ==
    /\ Len(fed) = 2
    /\ fed[1] = DataLine(<<>>, <<" ", " ">>, "")
    /\ fed[2] = DataLine(<<>>, <<" ", "t", " ">>, "")
    /\ out = <<Response(<<TextPart(<<" ", "t", " ">>)>>, <<>>, "")>>

\* --------------------------------------------- the body read in pieces
\* Lines of a response body that is read in pieces.
MaxBodyLines == 3

\* The position of the first newline of s, 0 when it has none.
RECURSIVE indexOfNewline(_, _)
indexOfNewline(s, i) ==
    IF i > Len(s) THEN 0
    ELSE IF s[i] = "\n" THEN i
    ELSE indexOfNewline(s, i + 1)

\* buffer.split('\n'): the pieces between the newlines, one more than there
\* are newlines.
RECURSIVE split(_)
split(s) ==
    LET i == indexOfNewline(s, 1)
    IN  IF i = 0 THEN <<s>>
        ELSE <<SubSeq(s, 1, i - 1)>> \o split(SubSeq(s, i + 1, Len(s)))

\* The rest after the last newline thrown away instead of kept.
popDropped(pieces) == <<>>

\* buffer = lines.pop() || '': the piece after the last newline is kept.
pop(pieces) == pieces[Len(pieces)]

\* The characters of a line: "d" stands for the prefix `data: `, the
\* characters after it are the payload.
\* What the loop body makes of one line: skipped when blank or without the
\* prefix, the sentinel, a chunk that JSON.parse accepts, or a malformed one.
parseLine(line) ==
    IF Len(Trim(line)) = 0 THEN BlankLine
    ELSE IF line[1] # "d" THEN BlankLine
    ELSE LET data == Trim(Tail(line))
         IN  IF data = <<"[", "D", "]">> THEN DoneLine
             ELSE IF data = <<"{", "t", "}">> THEN DataLine(<<>>, <<"t">>, "")
             ELSE IF data = <<"{", "0", "}">>
                  THEN DataLine(<<Frag(0, "c1", "get_weather", <<>>)>>, <<>>, "")
             ELSE IF data = <<"{", "f", "}">> THEN DataLine(<<>>, <<>>, "stop")
             ELSE MalformedLine

\* The complete lines in the characters s, as the loop sees them.
completeLines(s) ==
    LET pieces == split(s)
    IN  [i \in 1..(Len(pieces) - 1) |-> parseLine(pieces[i])]

LineTexts ==
    { <<"d", "{", "t", "}">>, <<"d", "{", "0", "}">>, <<"d", "{", "f", "}">>,
      <<"d", "[", "D", "]">>, <<"d", "{">>, <<>> }

\* The lines written one after the other, each ended by a newline.
RECURSIVE Written(_)
Written(texts) ==
    IF Len(texts) = 0 THEN <<>>
    ELSE Head(texts) \o <<"\n">> \o Written(Tail(texts))

Bodies == { Written(texts) : texts \in UNION { [1..n -> LineTexts] : n \in 1..MaxBodyLines } }

InitReads ==
    /\ pc = "read"
    /\ lines = <<>>
    /\ accumulatedToolCalls = <<>>
    /\ hasOutputToolCalls = FALSE
    /\ out = <<>>
    /\ released = 0
    /\ fed = <<>>
    /\ taken = 0
    /\ parked = Fresh
    /\ sent = <<>>
    /\ buffer = <<>>
    /\ body \in Bodies
    /\ position = 0

\* const { done, value } = await reader.read() with value any non-empty run
\* of the characters that follow; buffer += decode(value); split; pop.
ReadBytes ==
    /\ pc = "read"
    /\ position < Len(body)
    /\ \E n \in 1..(Len(body) - position) :
          LET value == SubSeq(body, position + 1, position + n)
              pieces == split(buffer \o value)
          IN  /\ lines' = [i \in 1..(Len(pieces) - 1) |-> parseLine(pieces[i])]
              /\ buffer' = pop(pieces)
              /\ position' = position + n
              /\ pc' = IF Len(pieces) > 1 THEN "lines" ELSE "read"
    /\ UNCHANGED <<accumulatedToolCalls, hasOutputToolCalls, out, released, fed, taken, parked, sent, body>>

\* reader.read() reports done once the body has been delivered.
ReadEnd ==
    /\ position = Len(body)
    /\ ReadDone

NextReads ==
    \/ ReadBytes
    \/ ReadEnd
    \/ ProcessLine

SpecReads == InitReads /\ [][NextReads]_vars

\* The lines up to and including the first one that ends the stream.
RECURSIVE UpToTerminator(_)
UpToTerminator(ls) ==
    IF Len(ls) = 0 THEN <<>>
    ELSE IF IsTerminator(Head(ls)) THEN <<Head(ls)>>
    ELSE <<Head(ls)>> \o UpToTerminator(Tail(ls))

\* ---- C38
\* C38: however the body is cut into reads, cuts inside a data line included,
\* the lines processed and waiting are the complete lines of the characters
\* delivered, each once and in order, the characters after the last newline
\* are kept for the next read, and the responses emitted are those of the
\* same lines arriving in one read: when the call has ended, those of the
\* whole body up to its first terminal line.
C38_ReadBoundaries ==
    /\ fed \o lines = completeLines(SubSeq(body, 1, position))
    /\ buffer = split(SubSeq(body, 1, position))[Len(split(SubSeq(body, 1, position)))]
    /\ out \in AloneOut(fed, pc)
    /\ pc = "done" =>
          /\ fed = UpToTerminator(completeLines(body))
          /\ out \in AloneOut(UpToTerminator(completeLines(body)), "done")

\* C38 witness: two text lines were processed and forwarded and the third
\* line was cut inside its payload: its first characters wait in the buffer.
C38_Witness ==
    /\ body = Written(<< <<"d", "{", "t", "}">>, <<"d", "{", "t", "}">>, <<"d", "[", "D", "]">> >>)
    /\ position = 12
    /\ buffer = <<"d", "[">>
    /\ Len(fed) = 2
    /\ Len(out) = 2
    /\ pc = "read"

\* ------------------------------------------- the consumer stopping early
\* Events of a call whose consumer may stop iterating.
MaxEarlyEvents == 3

EarlyLines == PairLines \cup {DoneLine}

\* The consumer's return() with the finally block skipped.
AbandonLeaks ==
    /\ taken < Len(out)
    /\ taken' = taken + 1
    /\ out' = SubSeq(out, 1, taken + 1)
    /\ pc' = "done"
    /\ UNCHANGED <<lines, accumulatedToolCalls, hasOutputToolCalls, released, fed, parked, sent,
                   buffer, body, position>>

\* The consumer stops iterating (break out of for await, or return()) while
\* the generator is suspended at a yield: the generator returns from that
\* yield, so what it would have yielded next is never produced, and the
\* finally block releases the reader unless the handler had already left
\* the loop through it.
Abandon ==
    /\ taken < Len(out)
    /\ taken' = taken + 1
    /\ out' = SubSeq(out, 1, taken + 1)
    /\ pc' = "done"
    /\ released' = IF pc \in {"read", "lines"} THEN released + 1 ELSE released
    /\ UNCHANGED <<lines, accumulatedToolCalls, hasOutputToolCalls, fed, parked, sent,
                   buffer, body, position>>

NextEarly ==
    \/ Resumed /\ ReadChunk(EarlyLines, MaxEarlyEvents)
    \/ Resumed /\ ReadDone
    \/ Resumed /\ ReadError
    \/ Resumed /\ DoneSentinel
    \/ Resumed /\ ToolCallsDelta
    \/ Resumed /\ FinishDelta
    \/ Resumed /\ TextDelta
    \/ Consume
    \/ Abandon

SpecEarly == Init /\ [][NextEarly]_vars

\* ---- C39
\* C39: on every way out (finish_reason, [DONE], end of data, transport
\* error, the consumer stopping early) the reader is released: the call has
\* completed or failed exactly when the lock has been released, it is
\* released once, and after the release no read is issued and no line is
\* processed.
C39_ReaderReleased ==
    [][/\ released \in {0, 1}
       /\ released' \in {0, 1}
       /\ (pc \in {"done", "failed"}) <=> (released = 1)
       /\ (pc' \in {"done", "failed"}) <=> (released' = 1)
       /\ released = 1 => (released' = 1 /\ pc' \in {"done", "failed"} /\ fed' = fed /\ lines' = lines)]_vars

\* C39 witness: the consumer took the first text and stopped; the call has
\* completed with the second line of the read unprocessed and no terminal
\* line seen, and the reader was released once.
C39_Witness ==
    /\ pc = "done"
    /\ released = 1
    /\ fed = <<DataLine(<<>>, <<"t">>, "")>>
    /\ Len(lines) = 1
    /\ out = <<Response(<<TextPart(<<"t">>)>>, <<>>, "")>>
    /\ taken = 1

====
